---- MODULE Spec2Model ----
(***************************************************************************)
(* Verification model of the Plume relay client engine                     *)
(* (src/src/main.rs, src/src/relay.rs).                                    *)
(*                                                                         *)
(* The module holds one state machine per orchestrator operation:          *)
(*   MergeSpec   - fetch_notes_from_relays (multi-relay fetch-and-merge)   *)
(*   FeedSpec    - start_feed_stream + run_relay_feed_stream (fan-out)     *)
(*   PubSpec     - publish commands, publish_event_to_relays,              *)
(*                 publish_event_to_relay over RelayConnection             *)
(*   FetchSpec   - fetch_notes_from_relay over RelayConnection             *)
(* Each specification drives its own variables and leaves the variables    *)
(* of the other machines at their idle values.                             *)
(***************************************************************************)
EXTENDS Integers, Sequences, FiniteSets, TLC

VARIABLES
    \* ---- fetch_notes_from_relays (main.rs 273-339)
    mergePc,        \* "idle" | "fetching" | "done"
    relay_count,    \* relay_urls.len()
    limit,          \* requested limit
    relay_idx,      \* number of relays the for loop has already visited
    all_events,     \* Vec<Event> accumulated over the relays
    fail_count,     \* relays whose fetch returned Err
    mergeResult     \* "none" | "Err" | "Ok"; unique_events follows when Ok
    , unique_events,
    \* ---- start_feed_stream (main.rs 341-419), run_relay_feed_stream (relay.rs 518-596)
    num_relays,     \* relay_urls.len()
    feedPc,         \* consumer: "idle" | "start" | "recv" | "done" | "rejected"
    prodPc,         \* per relay task: "idle" | "start" | "streaming" | "done"
    chan,           \* the unbounded mpsc channel, oldest message first
    eose_count,     \* Eose markers counted by the consumer
    emitted,        \* what the consumer emitted to the UI, in order
    wire_events,    \* per relay: EVENT frames read from the socket so far
    wire_ignored,   \* frames read, by any task, that its loop ignores
    prodExit,       \* per relay task: the statement through which it ended
    eose_seen,      \* per relay: Eose markers of that task the consumer has counted
                    \* (kept for the properties; the program keeps eose_count only)
    \* ---- RelayConnection (relay.rs 36-192) and the wait loops that use it
    connected,      \* RelayConnection::connected
    socket,         \* RelayConnection::socket is Some
    inbox,          \* what the relay has sent and socket.read() has not yet returned
    elapsed,        \* start_time.elapsed() > timeout
    \* ---- publish commands (main.rs 790-824, 928-947), publish_event_to_relays
    \*      and publish_event_to_relay (relay.rs 1040-1144)
    command,        \* "none" | "post_note" | "send_dm"
    relay_urls,     \* cfg.relays
    pub_idx,        \* relays the for loop of publish_event_to_relays has visited
    results,        \* Vec<PublishResult> built by publish_event_to_relays
    relay_returns,  \* per visited relay: "Ok" or "Err", the variant that
                    \* publish_event_to_relay returned (kept for the properties)
    pubPc,          \* "idle" | "command" | "loop" | "publishing" | "waiting"
                    \*        | "receiving" | "returned" | "finished"
    commandResult,  \* "none" | "Ok" | "Err"
    \* ---- fetch_notes_from_relay (relay.rs 675-744)
    fetch_url,      \* relay_url
    fetchPc,        \* "idle" | "connect" | "subscribe" | "loop" | "receiving" | "returned"
    events,         \* Vec<Event> collected so far (the events' ids)
    fetchResult,    \* "none" | "Ok" | "Err": Ok carries `events`
    fetchExit,      \* the statement through which the function left (kept for
                    \* the properties)
    \* ---- fetch_replies_to_event, fetch_events_by_ids (main.rs 421-485)
    threadCmd,      \* "none" | "fetch_replies_to_event" | "fetch_events_by_ids"
    threadPc,       \* "idle" | "called" | "fetching" | "done"
    key_empty,      \* event_id.is_empty() / ids.is_empty()
    thread_relays,  \* relay_urls.len()
    thread_limit,   \* the limit argument (fetch_replies_to_event only)
    thread_idx,     \* relays the for loop has already visited
    thread_events,  \* all_events
    thread_errs,    \* relays whose fetch returned Err (the code does not count
                    \* them; kept for the properties)
    threadResult,   \* "none" | "Ok" | "Err"
    thread_unique,  \* `unique`: the events returned when Ok
    \* ---- parse_relay_message, parse_relay_message_actson (relay.rs 212-514)
    relay_text,     \* `message`: the text of one relay message
    jsonResult,     \* what parse_relay_message returned for it
    actsonResult,   \* what parse_relay_message_actson returned for it
    \* ---- the backoff table and the commands that use it (main.rs 494-531)
    backoff,        \* per relay URL: (failure_count, next_retry_at)
    now,            \* the clock
    backoff_status, \* what get_relay_backoff_status returned, if that was the
                    \* last step
    backoff_op,     \* the last step taken on or past the table (kept for the
                    \* properties)
    attempt,        \* the connection attempt of a relay operation, if that was
                    \* the last step (kept for the properties)
    \* ---- verify_accept (websocket/handshake.rs 58-71)
    key_base64,     \* the Sec-WebSocket-Key that was sent
    accept_header,  \* Option<&str>: the Sec-WebSocket-Accept of the response
    verifyResult,   \* "none" | "Ok" | "mismatch" | "missing"
    \* ---- WebSocketClient::connect (websocket/client.rs 42-116) and
    \*      WebSocketConnection::run (websocket/connection.rs 55-101)
    ws_pc,          \* "idle" | "start" | "handshake" | "failed" | "connected"
                    \*        | "loop" | "returned"
    ws_key,         \* key_base64 of the request
    ws_server,      \* the response the server sends (kept for the properties)
    ws_frames,      \* the frames the server sends after the response (kept for
                    \* the properties)
    ws_wire,        \* bytes the server sends that no read has returned yet
    ws_read_buf,    \* read_buf of connect
    ws_connect,     \* "none" | "Ok" | the error connect returned
    conn_read_buf,  \* WebSocketConnection::read_buf
    ws_stop_after,  \* the handler: should_stop() is true from that many callbacks on
    ws_dispatched,  \* the callbacks the handler has had, in order
    ws_fed,         \* the bytes handed to the frame parser, in order (kept for
                    \* the properties)
    ws_failed,      \* calls of handler.failed
    ws_run,         \* "none" | "Ok" | "Err": what run returned
    ws_exit         \* the statement through which run returned
    ,
    \* ---- encode_frame and FrameParser (websocket/frame.rs)
    codec_in,       \* opcode, payload (its length and content) and mask key
    codec_wire,     \* `out`: the bytes encode_frame produced
    codec_out       \* what the parser made of them
    ,
    \* ---- WebSocketConnection::send_* (websocket/connection.rs 103-163)
    send_pc,        \* "idle" | "open"
    send_count,     \* send operations called so far
    send_call,      \* the latest one: operation, opcode and payload
    send_written,   \* the bytes it wrote to the stream
    send_flushed,   \* whether it flushed them
    send_result,    \* "none" | "Ok" | "InvalidInput" | "IoError"
    send_failed     \* calls of handler.failed made by send operations
    ,
    \* ---- start_dm_stream (main.rs 950-1023) and run_relay_dm_stream
    \*      (relay.rs 599-671)
    dm_num_relays,  \* cfg.relays.len()
    dm_pc,          \* consumer: "idle" | "start" | "skipped" | "recv" | "done"
    dm_prod,        \* per relay task: "idle" | "start" | "streaming" | "done"
    dm_exit,        \* per relay task: the statement through which it ended
    dm_wire,        \* per relay task: what its reads yielded, in order (kept
                    \* for the properties)
    dm_sent,        \* per relay task: ids of the events it sent on the channel
    dm_chan,        \* the unbounded mpsc channel, oldest message first
    dm_eose_count,  \* eose_count
    dm_initial_sync,\* initial_sync
    dm_store,       \* the conversation file (exists, contents)
    dm_emitted,     \* what the consumer emitted to the frontend, in order
    dm_log          \* what the consumer did with each event (kept for the
                    \* properties)
    ,
    \* ---- messages_store::append_raw_event (messages_store.rs 306-357)
    store_pc,       \* per caller: "off" | "idle" | "lock" | "read" | "write"
    store_event,    \* per caller: the event whose text it was given
    store_new_id,   \* per caller: new_id
    store_contents, \* per caller: what it found on disk (exists, contents)
    store_result,   \* per caller: "none" | "Ok(true)" | "Ok(false)" | "Err"
    store_lock,     \* who holds the conversation's mutex (0: nobody)
    store_file,     \* the conversation file
    store_appended, \* the events whose call returned Ok(true), in the order
                    \* of their writes (kept for the properties)
    store_log       \* what each finished call did (kept for the properties)
    ,
    \* ---- event_to_json and parse_event (nostr.rs 347-421)
    json_pc,        \* "off" | "event" | "text" | "parsed"
    json_event,     \* the event written
    json_text,      \* what event_to_json returned
    json_parsed     \* what parse_event returned (ok, event)
    ,
    \* ---- hex_to_bytes and bytes_to_hex (crypto.rs 422-488)
    hex_pc,         \* "off" | "text" | "decoded" | "back_to_text" | "bytes" |
                    \* "encoded" | "back_to_bytes"
    hex_h,          \* the text given to hex_to_bytes
    hex_b,          \* the bytes given to bytes_to_hex
    hex_result,     \* what hex_to_bytes returned (ok, bytes)
    hex_text        \* what bytes_to_hex returned
    ,
    \* ---- RelayConnection under any sequence of operations (relay.rs 47-192)
    rc_pc,          \* "off" | "new"
    rc_connected,   \* RelayConnection::connected
    rc_socket,      \* RelayConnection::socket is Some
    rc_ops,         \* operations called so far
    rc_last         \* what the latest operation did (kept for the properties)

mergeVars == <<mergePc, relay_count, limit, relay_idx, all_events, fail_count,
               mergeResult, unique_events>>

feedVars == <<num_relays, feedPc, prodPc, chan, eose_count, emitted,
              wire_events, wire_ignored, prodExit, eose_seen>>

connVars == <<connected, socket, inbox, elapsed>>

pubVars == <<command, relay_urls, pub_idx, results, relay_returns, pubPc,
             commandResult>>

fetchVars == <<fetch_url, fetchPc, events, fetchResult, fetchExit>>

threadVars == <<threadCmd, threadPc, key_empty, thread_relays, thread_limit,
                thread_idx, thread_events, thread_errs, threadResult, thread_unique>>

parseVars == <<relay_text, jsonResult, actsonResult>>

backoffVars == <<backoff, now, backoff_status, backoff_op, attempt>>

handshakeVars == <<key_base64, accept_header, verifyResult>>

wsVars == <<ws_pc, ws_key, ws_server, ws_frames, ws_wire, ws_read_buf, ws_connect,
            conn_read_buf, ws_stop_after, ws_dispatched, ws_fed, ws_failed, ws_run,
            ws_exit>>

codecVars == <<codec_in, codec_wire, codec_out>>


sendVars == <<send_pc, send_count, send_call, send_written, send_flushed, send_result,
              send_failed>>

dmVars == <<dm_num_relays, dm_pc, dm_prod, dm_exit, dm_wire, dm_sent, dm_chan,
            dm_eose_count, dm_initial_sync, dm_store, dm_emitted, dm_log>>

storeVars == <<store_pc, store_event, store_new_id, store_contents, store_result,
               store_lock, store_file, store_appended, store_log>>

jsonVars == <<json_pc, json_event, json_text, json_parsed>>

hexVars == <<hex_pc, hex_h, hex_b, hex_result, hex_text>>

rcVars == <<rc_pc, rc_connected, rc_socket, rc_ops, rc_last>>

vars == <<mergeVars, feedVars, connVars, pubVars, fetchVars, threadVars, parseVars,
          backoffVars, handshakeVars, wsVars, codecVars, sendVars, dmVars, storeVars, jsonVars, hexVars, rcVars>>

\* what each machine leaves alone
notMergeVars == <<feedVars, connVars, pubVars, fetchVars, threadVars, parseVars,
    backoffVars, handshakeVars, wsVars, codecVars, sendVars, dmVars, storeVars, jsonVars, hexVars, rcVars>>
notFeedVars == <<mergeVars, connVars, pubVars, fetchVars, threadVars, parseVars,
    backoffVars, handshakeVars, wsVars, codecVars, sendVars, dmVars, storeVars, jsonVars, hexVars, rcVars>>
notPubVars == <<mergeVars, feedVars, fetchVars, threadVars, parseVars,
    backoffVars, handshakeVars, wsVars, codecVars, sendVars, dmVars, storeVars, jsonVars, hexVars, rcVars>>
notFetchVars == <<mergeVars, feedVars, pubVars, threadVars, parseVars,
    backoffVars, handshakeVars, wsVars, codecVars, sendVars, dmVars, storeVars, jsonVars, hexVars, rcVars>>
notThreadVars == <<mergeVars, feedVars, connVars, pubVars, fetchVars, parseVars,
    backoffVars, handshakeVars, wsVars, codecVars, sendVars, dmVars, storeVars, jsonVars, hexVars, rcVars>>
notParseVars == <<mergeVars, feedVars, connVars, pubVars, fetchVars, threadVars,
    backoffVars, handshakeVars, wsVars, codecVars, sendVars, dmVars, storeVars, jsonVars, hexVars, rcVars>>
notBackoffVars == <<mergeVars, feedVars, connVars, pubVars, fetchVars, threadVars,
    parseVars, handshakeVars, wsVars, codecVars, sendVars, dmVars, storeVars, jsonVars, hexVars, rcVars>>
notHandshakeVars == <<mergeVars, feedVars, connVars, pubVars, fetchVars, threadVars,
    parseVars, backoffVars, wsVars, codecVars, sendVars, dmVars, storeVars, jsonVars, hexVars, rcVars>>
notWsVars == <<mergeVars, feedVars, connVars, pubVars, fetchVars, threadVars, parseVars,
    backoffVars, handshakeVars, codecVars, sendVars, dmVars, storeVars, jsonVars, hexVars, rcVars>>
notCodecVars == <<mergeVars, feedVars, connVars, pubVars, fetchVars, threadVars, parseVars,
    backoffVars, handshakeVars, wsVars, sendVars, dmVars, storeVars, jsonVars, hexVars, rcVars>>
notSendVars == <<mergeVars, feedVars, connVars, pubVars, fetchVars, threadVars, parseVars,
    backoffVars, handshakeVars, wsVars, codecVars, dmVars, storeVars, jsonVars, hexVars, rcVars>>
notDmVars == <<mergeVars, feedVars, connVars, pubVars, fetchVars, threadVars, parseVars,
    backoffVars, handshakeVars, wsVars, codecVars, sendVars, storeVars, jsonVars, hexVars, rcVars>>
notStoreVars == <<mergeVars, feedVars, connVars, pubVars, fetchVars, threadVars, parseVars,
    backoffVars, handshakeVars, wsVars, codecVars, sendVars, dmVars, jsonVars, hexVars, rcVars>>
notJsonVars == <<mergeVars, feedVars, connVars, pubVars, fetchVars, threadVars, parseVars,
    backoffVars, handshakeVars, wsVars, codecVars, sendVars, dmVars, storeVars, hexVars, rcVars>>
notHexVars == <<mergeVars, feedVars, connVars, pubVars, fetchVars, threadVars, parseVars,
    backoffVars, handshakeVars, wsVars, codecVars, sendVars, dmVars, storeVars, jsonVars, rcVars>>
notRcVars == <<mergeVars, feedVars, connVars, pubVars, fetchVars, threadVars, parseVars,
    backoffVars, handshakeVars, wsVars, codecVars, sendVars, dmVars, storeVars, jsonVars, hexVars>>

-----------------------------------------------------------------------------
(* Bounds of the model *)

MaxRelays == 2
MaxEvents == 3
MaxLimit == 3
MaxId == 2
MaxTime == 2
MaxWireEvents == 2
MaxIgnored == 1
MaxTags == 2         \* tags of an event object
MaxFailures == 2     \* failures counted for one relay
MaxNow == 3          \* ticks of the clock
MaxKeyLen == 2       \* characters of a Sec-WebSocket-Key
MaxFrames == 2       \* frames a relay sends behind its handshake response
MaxSeed == 1         \* contents tried for a payload of one length
MaxSends == 2        \* send operations called on one connection
MaxDmReads == 2      \* frames and timeouts the tasks of one DM stream read
MaxAppends == 3      \* calls of append_raw_event for one conversation
MaxHexLen == 4       \* characters of a hexadecimal text, bytes of a byte sequence
MaxOps == 5          \* operations called on one RelayConnection

-----------------------------------------------------------------------------
(* Generic helpers *)

SeqsUpTo(S, n) == UNION {[1..k -> S] : k \in 0..n}

Min(a, b) == IF a <= b THEN a ELSE b

-----------------------------------------------------------------------------
(* Strings are sequences of characters, so that str::contains and
   str::to_lowercase are computed and not assumed *)

IsAt(s, t, i) == \A k \in 1..Len(t) : s[i + k - 1] = t[k]

\* str::contains
Contains(s, t) == \E i \in 1..(Len(s) - Len(t) + 1) : IsAt(s, t, i)

UpperCase == <<"A", "B", "C", "D", "E", "F", "G", "H", "I", "J", "K", "L", "M", "N", "O", "P", "Q", "R", "S", "T", "U", "V", "W", "X", "Y", "Z">>
LowerCase == <<"a", "b", "c", "d", "e", "f", "g", "h", "i", "j", "k", "l", "m", "n", "o", "p", "q", "r", "s", "t", "u", "v", "w", "x", "y", "z">>

ToLowerChar(c) ==
    IF \E k \in 1..Len(UpperCase) : UpperCase[k] = c
    THEN LowerCase[CHOOSE k \in 1..Len(UpperCase) : UpperCase[k] = c]
    ELSE c

\* str::to_lowercase on the ASCII range
ToLowercase(s) == [i \in 1..Len(s) |-> ToLowerChar(s[i])]

\* string literals of relay.rs
StrError == <<"e", "r", "r", "o", "r">>  \* "error" (relay.rs 1085)
StrPing == <<"p", "i", "n", "g">>  \* "ping" (relay.rs 1103)
StrPong == <<"p", "o", "n", "g">>  \* "pong" (relay.rs 1103)
StrEVENT == <<"E", "V", "E", "N", "T">>  \* "EVENT" (relay.rs 232)
StrEOSE == <<"E", "O", "S", "E">>  \* "EOSE" (relay.rs 251)
StrNOTICE == <<"N", "O", "T", "I", "C", "E">>  \* "NOTICE" (relay.rs 265)
StrOK == <<"O", "K">>  \* "OK" (relay.rs 279)
MsgNotConnected == <<"N", "o", "t", " ", "c", "o", "n", "n", "e", "c", "t", "e", "d", " ", "t", "o", " ", "r", "e", "l", "a", "y">>  \* "Not connected to relay" (relay.rs 96, 120)
MsgNoSocket == <<"N", "o", " ", "s", "o", "c", "k", "e", "t", " ", "c", "o", "n", "n", "e", "c", "t", "i", "o", "n">>  \* "No socket connection" (relay.rs 112, 161)
MsgReceivedPing == <<"R", "e", "c", "e", "i", "v", "e", "d", " ", "p", "i", "n", "g">>  \* "Received ping" (relay.rs 140)
MsgReceivedPong == <<"R", "e", "c", "e", "i", "v", "e", "d", " ", "p", "o", "n", "g">>  \* "Received pong" (relay.rs 143)
MsgClosedByRelay == <<"C", "o", "n", "n", "e", "c", "t", "i", "o", "n", " ", "c", "l", "o", "s", "e", "d", " ", "b", "y", " ", "r", "e", "l", "a", "y">>  \* "Connection closed by relay" (relay.rs 147)
MsgRawFrame == <<"R", "e", "c", "e", "i", "v", "e", "d", " ", "r", "a", "w", " ", "f", "r", "a", "m", "e">>  \* "Received raw frame" (relay.rs 150)
MsgInvalidUtf8 == <<"I", "n", "v", "a", "l", "i", "d", " ", "U", "T", "F", "-", "8", ":", " ">>  \* "Invalid UTF-8: " (relay.rs 135)
MsgReceiveFailed == <<"F", "a", "i", "l", "e", "d", " ", "t", "o", " ", "r", "e", "c", "e", "i", "v", "e", " ", "m", "e", "s", "s", "a", "g", "e", ":", " ">>  \* "Failed to receive message: " (relay.rs 156)
MsgSendFailed == <<"F", "a", "i", "l", "e", "d", " ", "t", "o", " ", "s", "e", "n", "d", " ", "m", "e", "s", "s", "a", "g", "e", ":", " ">>  \* "Failed to send message: " (relay.rs 107)
MsgInvalidUrl == <<"I", "n", "v", "a", "l", "i", "d", " ", "r", "e", "l", "a", "y", " ", "U", "R", "L", ":", " ">>  \* "Invalid relay URL: " (relay.rs 64)
MsgConnectFailed == <<"F", "a", "i", "l", "e", "d", " ", "t", "o", " ", "c", "o", "n", "n", "e", "c", "t", " ", "t", "o", " ">>  \* "Failed to connect to " (relay.rs 77)
MsgUnknownNotice == <<"U", "n", "k", "n", "o", "w", "n", " ", "n", "o", "t", "i", "c", "e">>  \* "Unknown notice" (relay.rs 271)
MsgTimeout == <<"T", "i", "m", "e", "o", "u", "t", " ", "w", "a", "i", "t", "i", "n", "g", " ", "f", "o", "r", " ", "r", "e", "s", "p", "o", "n", "s", "e">>  \* "Timeout waiting for response" (relay.rs 1063)

\* sample texts the environment supplies
PublishedId == <<"a", "1">>   \* event.id of the event being published
OtherId == <<"b", "2">>       \* the id of some other event
ErrText == <<"i", "o">>       \* the Display text of a library error
TextSpam == <<"s", "p", "a", "m">>
TextEmpty == <<>>
TextHello == <<"h", "i">>
TextAboutId == <<"b", "a", "d", " ", "a", "1">>   \* a notice that names the event id
TextERROR == <<"E", "R", "R", "O", "R">>     \* a notice with the word error in capitals
TextSub == <<"s">>       \* a subscription id
TextAUTH == <<"A", "U", "T", "H">>      \* a message type this client does not know

-----------------------------------------------------------------------------
(* Events as far as the merge reads them: id and created_at *)

EventIds == 1..MaxId
Times == 1..MaxTime
Events == [id : EventIds, created_at : Times]

\* Vec::sort_by(|a, b| b.created_at.cmp(&a.created_at)): a stable sort, so an
\* element is placed after every element that does not compare greater.
RECURSIVE InsertDesc(_, _)
InsertDesc(sorted, e) ==
    IF sorted = <<>> THEN <<e>>
    ELSE IF Head(sorted).created_at >= e.created_at
         THEN <<Head(sorted)>> \o InsertDesc(Tail(sorted), e)
         ELSE <<e>> \o sorted

\* Vec::sort_by(|a, b| a.created_at.cmp(&b.created_at)): ascending, stable
RECURSIVE InsertAsc(_, _)
InsertAsc(sorted, e) ==
    IF sorted = <<>> THEN <<e>>
    ELSE IF Head(sorted).created_at <= e.created_at
         THEN <<Head(sorted)>> \o InsertAsc(Tail(sorted), e)
         ELSE <<e>> \o sorted

RECURSIVE SortAscFrom(_, _)
SortAscFrom(acc, rest) ==
    IF rest = <<>> THEN acc
    ELSE SortAscFrom(InsertAsc(acc, Head(rest)), Tail(rest))

SortByCreatedAtAsc(s) == SortAscFrom(<<>>, s)

RECURSIVE SortDescFrom(_, _)
SortDescFrom(acc, rest) ==
    IF rest = <<>> THEN acc
    ELSE SortDescFrom(InsertDesc(acc, Head(rest)), Tail(rest))

SortByCreatedAtDesc(s) == SortDescFrom(<<>>, s)

\* every event kept, whether its id was seen before or not
DedupNothing(s) == s

\* the seen_ids loop: keep an event only when its id was not seen before
RECURSIVE DedupFrom(_, _, _)
DedupFrom(seen_ids, unique, rest) ==
    IF rest = <<>> THEN unique
    ELSE IF Head(rest).id \in seen_ids
         THEN DedupFrom(seen_ids, unique, Tail(rest))
         ELSE DedupFrom(seen_ids \cup {Head(rest).id},
                        Append(unique, Head(rest)), Tail(rest))

DedupById(s) == DedupFrom({}, <<>>, s)

\* Vec::truncate guarded by len() > limit
Truncate(s, n) == IF Len(s) > n THEN SubSeq(s, 1, n) ELSE s

\* sort, dedup, truncate: the tail of fetch_notes_from_relays
MergeEvents(evs, lim) == Truncate(DedupById(SortByCreatedAtDesc(evs)), lim)

-----------------------------------------------------------------------------
(* fetch_notes_from_relays *)

MergeIdle ==
    /\ mergePc = "idle"
    /\ relay_count = 0
    /\ limit = 0
    /\ relay_idx = 0
    /\ all_events = <<>>
    /\ fail_count = 0
    /\ mergeResult = "none"
    /\ unique_events = <<>>

\* the command is invoked with a relay list and a limit
MergeInit ==
    /\ mergePc = "fetching"
    /\ relay_count \in 0..MaxRelays
    /\ limit \in 0..MaxLimit
    /\ relay_idx = 0
    /\ all_events = <<>>
    /\ fail_count = 0
    /\ mergeResult = "none"
    /\ unique_events = <<>>

\* relay_urls.is_empty(): early Err
MergeNoRelays ==
    /\ mergePc = "fetching"
    /\ relay_count = 0
    /\ mergePc' = "done"
    /\ mergeResult' = "Err"
    /\ UNCHANGED <<relay_count, limit, relay_idx, all_events, fail_count,
                   unique_events>>
    /\ UNCHANGED notMergeVars

\* one iteration of the for loop: the relay's fetch returned Ok(events)
MergeFetchOk ==
    /\ mergePc = "fetching"
    /\ relay_idx < relay_count
    /\ \E fetched \in SeqsUpTo(Events, MaxEvents - Len(all_events)) :
           all_events' = all_events \o fetched
    /\ relay_idx' = relay_idx + 1
    /\ UNCHANGED <<mergePc, relay_count, limit, fail_count, mergeResult,
                   unique_events>>
    /\ UNCHANGED notMergeVars

\* one iteration of the for loop: the relay's fetch returned Err
MergeFetchErr ==
    /\ mergePc = "fetching"
    /\ relay_idx < relay_count
    /\ fail_count' = fail_count + 1
    /\ relay_idx' = relay_idx + 1
    /\ UNCHANGED <<mergePc, relay_count, limit, all_events, mergeResult,
                   unique_events>>
    /\ UNCHANGED notMergeVars

\* after the loop: all failed -> Err; otherwise sort, dedup, truncate
MergeFinish ==
    /\ mergePc = "fetching"
    /\ relay_count > 0
    /\ relay_idx = relay_count
    /\ mergePc' = "done"
    /\ IF fail_count = relay_count
       THEN /\ mergeResult' = "Err"
            /\ unique_events' = <<>>
       ELSE /\ mergeResult' = "Ok"
            /\ unique_events' = MergeEvents(all_events, limit)
    /\ UNCHANGED <<relay_count, limit, relay_idx, all_events, fail_count>>
    /\ UNCHANGED notMergeVars

MergeNext == MergeNoRelays \/ MergeFetchOk \/ MergeFetchErr \/ MergeFinish

-----------------------------------------------------------------------------
(* Streaming feed: start_feed_stream and its run_relay_feed_stream tasks *)

Relays == 1..MaxRelays

\* StreamMessage (relay.rs 313-317). `from` and `seq` are not in the program's
\* message: they record which task sent it and which of that relay's EVENT
\* frames it carries, so that properties can speak about them.
EventMsg(r, k) == [type |-> "Event", from |-> r, seq |-> k]
EoseMsg(r) == [type |-> "Eose", from |-> r, seq |-> 0]
NoticeMsg(r) == [type |-> "Notice", from |-> r, seq |-> 0]

\* UnboundedSender::send: the message is queued unless the receiver was dropped
\* (the consumer left its loop), in which case send returns Err
ReceiverDropped == feedPc = "done"
\* a channel that hands out the newest message first
TxSendFront(msg) == IF ReceiverDropped THEN chan ELSE <<msg>> \o chan

TxSend(msg) == IF ReceiverDropped THEN chan ELSE Append(chan, msg)

RECURSIVE SumTo(_, _)
SumTo(f, n) == IF n = 0 THEN 0 ELSE f[n] + SumTo(f, n - 1)

\* EVENT frames read so far over all relays
WireTotal == SumTo(wire_events, MaxRelays)

FeedIdle ==
    /\ num_relays = 0
    /\ feedPc = "idle"
    /\ prodPc = [r \in Relays |-> "idle"]
    /\ chan = <<>>
    /\ eose_count = 0
    /\ emitted = <<>>
    /\ wire_events = [r \in Relays |-> 0]
    /\ wire_ignored = 0
    /\ prodExit = [r \in Relays |-> "none"]
    /\ eose_seen = [r \in Relays |-> 0]

\* the command is invoked with a relay list
FeedInit ==
    /\ num_relays \in 0..MaxRelays
    /\ feedPc = "start"
    /\ prodPc = [r \in Relays |-> "idle"]
    /\ chan = <<>>
    /\ eose_count = 0
    /\ emitted = <<>>
    /\ wire_events = [r \in Relays |-> 0]
    /\ wire_ignored = 0
    /\ prodExit = [r \in Relays |-> "none"]
    /\ eose_seen = [r \in Relays |-> 0]

\* start_feed_stream: empty relay list -> Err; otherwise spawn one task per relay
\* and enter the receive loop (main.rs 350-352, 386-397)
StartFeedStream ==
    /\ feedPc = "start"
    /\ IF num_relays = 0
       THEN /\ feedPc' = "rejected"
            /\ prodPc' = prodPc
       ELSE /\ feedPc' = "recv"
            /\ prodPc' = [r \in Relays |-> IF r <= num_relays THEN "start" ELSE "idle"]
    /\ UNCHANGED <<num_relays, chan, eose_count, emitted, wire_events, wire_ignored,
                   prodExit>>
    /\ UNCHANGED <<eose_seen, notFeedVars>>

\* Url::parse fails: a Notice is sent and the task returns (relay.rs 524-530)
FeedUrlInvalid(r) ==
    /\ prodPc[r] = "start"
    /\ chan' = TxSend(NoticeMsg(r))
    /\ prodPc' = [prodPc EXCEPT ![r] = "done"]
    /\ prodExit' = [prodExit EXCEPT ![r] = "invalid_url"]
    /\ UNCHANGED <<num_relays, feedPc, eose_count, emitted, wire_events, wire_ignored>>
    /\ UNCHANGED <<eose_seen, notFeedVars>>

\* connect_async fails: the task returns (relay.rs 532-538)
FeedConnectFail(r) ==
    /\ prodPc[r] = "start"
    /\ prodPc' = [prodPc EXCEPT ![r] = "done"]
    /\ prodExit' = [prodExit EXCEPT ![r] = "connect_failed"]
    /\ UNCHANGED <<num_relays, feedPc, chan, eose_count, emitted, wire_events, wire_ignored>>
    /\ UNCHANGED <<eose_seen, notFeedVars>>

\* sending the REQ fails: the task returns (relay.rs 554-556)
FeedReqFail(r) ==
    /\ prodPc[r] = "start"
    /\ prodPc' = [prodPc EXCEPT ![r] = "done"]
    /\ prodExit' = [prodExit EXCEPT ![r] = "req_failed"]
    /\ UNCHANGED <<num_relays, feedPc, chan, eose_count, emitted, wire_events, wire_ignored>>
    /\ UNCHANGED <<eose_seen, notFeedVars>>

\* URL parsed, connected, REQ sent: the task enters its read loop
\* (relay.rs 524-558)
FeedSubscribed(r) ==
    /\ prodPc[r] = "start"
    /\ prodPc' = [prodPc EXCEPT ![r] = "streaming"]
    /\ UNCHANGED <<num_relays, feedPc, chan, eose_count, emitted, wire_events, wire_ignored,
                   prodExit>>
    /\ UNCHANGED <<eose_seen, notFeedVars>>

\* leaving the loop: the statement after it sends the Eose marker and the task
\* ends (relay.rs 595)
FeedBreak(r, why) ==
    /\ chan' = TxSend(EoseMsg(r))
    /\ prodPc' = [prodPc EXCEPT ![r] = "done"]
    /\ prodExit' = [prodExit EXCEPT ![r] = why]

\* a text frame that parses to EVENT: forwarded at once; a failed send breaks
\* (relay.rs 571-575)
FeedRecvEvent(r) ==
    /\ prodPc[r] = "streaming"
    /\ WireTotal < MaxWireEvents
    /\ wire_events' = [wire_events EXCEPT ![r] = @ + 1]
    /\ IF ReceiverDropped
       THEN FeedBreak(r, "send_failed")
       ELSE /\ chan' = TxSend(EventMsg(r, wire_events[r] + 1))
            /\ UNCHANGED <<prodPc, prodExit>>
    /\ UNCHANGED <<num_relays, feedPc, eose_count, emitted, wire_ignored>>
    /\ UNCHANGED <<eose_seen, notFeedVars>>

\* a text frame that parses to EOSE: break (relay.rs 576-578)
FeedRecvEose(r) ==
    /\ prodPc[r] = "streaming"
    /\ FeedBreak(r, "eose")
    /\ UNCHANGED <<num_relays, feedPc, eose_count, emitted, wire_events, wire_ignored>>
    /\ UNCHANGED <<eose_seen, notFeedVars>>

\* NOTICE, OK, unknown or unparsable text, ping, pong, binary, or the 1 s read
\* timeout: the loop goes round again (relay.rs 579-586, 589, 591)
FeedRecvIgnored(r) ==
    /\ prodPc[r] = "streaming"
    /\ wire_ignored < MaxIgnored
    /\ wire_ignored' = wire_ignored + 1
    /\ UNCHANGED <<num_relays, feedPc, prodPc, chan, eose_count, emitted, wire_events,
                   prodExit>>
    /\ UNCHANGED <<eose_seen, notFeedVars>>

\* Close frame, read error or end of stream: break (relay.rs 588, 590)
FeedRecvClosed(r) ==
    /\ prodPc[r] = "streaming"
    /\ FeedBreak(r, "closed")
    /\ UNCHANGED <<num_relays, feedPc, eose_count, emitted, wire_events, wire_ignored>>
    /\ UNCHANGED <<eose_seen, notFeedVars>>

\* the deadline check at the top of the loop: break (relay.rs 561-563)
FeedDeadline(r) ==
    /\ prodPc[r] = "streaming"
    /\ FeedBreak(r, "deadline")
    /\ UNCHANGED <<num_relays, feedPc, eose_count, emitted, wire_events, wire_ignored>>
    /\ UNCHANGED <<eose_seen, notFeedVars>>

\* every task that was spawned has ended, so every clone of tx is dropped
AllSendersDropped == \A r \in Relays : prodPc[r] \in {"idle", "done"}

\* counting a single Eose as global completion
CaughtUpAtFirst(count) == count >= 1

\* the consumer's test after counting an Eose marker (main.rs 404-405)
CaughtUp(count) == count >= num_relays

\* a note is left out when a note for the same position of another relay's
\* stream has been emitted
EmitNoteDeduplicated(notifications, msg) ==
    IF \E i \in 1..Len(notifications) :
           notifications[i].name = "note" /\ notifications[i].seq = msg.seq
    THEN notifications
    ELSE Append(notifications, [name |-> "note", from |-> msg.from, seq |-> msg.seq])

\* app.emit(&note_event, &json) for an Event message (main.rs 399-402)
EmitNote(notifications, msg) ==
    Append(notifications, [name |-> "note", from |-> msg.from, seq |-> msg.seq])

\* one iteration of `while let Some(msg) = rx.recv().await` (main.rs 397-414)
FeedConsume ==
    /\ feedPc = "recv"
    /\ chan # <<>>
    /\ chan' = Tail(chan)
    /\ LET msg == Head(chan) IN
       CASE msg.type = "Event" ->
                /\ emitted' = EmitNote(emitted, msg)
                /\ UNCHANGED <<eose_count, eose_seen, feedPc>>
         [] msg.type = "Eose" ->
                /\ eose_count' = eose_count + 1
                /\ eose_seen' = [eose_seen EXCEPT ![msg.from] = @ + 1]
                /\ IF CaughtUp(eose_count + 1)
                   THEN /\ emitted' = Append(emitted, [name |-> "eose", from |-> 0,
                                                       seq |-> 0])
                        /\ feedPc' = "done"
                   ELSE UNCHANGED <<emitted, feedPc>>
         [] msg.type = "Notice" ->
                UNCHANGED <<eose_count, eose_seen, emitted, feedPc>>
    /\ UNCHANGED <<num_relays, prodPc, wire_events, wire_ignored, prodExit>>
    /\ UNCHANGED notFeedVars

\* rx.recv() returns None: the channel is empty and every sender is dropped;
\* the while loop ends without emitting anything (main.rs 397, 414)
FeedChannelClosed ==
    /\ feedPc = "recv"
    /\ chan = <<>>
    /\ AllSendersDropped
    /\ feedPc' = "done"
    /\ UNCHANGED <<num_relays, prodPc, chan, eose_count, emitted, wire_events, wire_ignored,
                   prodExit>>
    /\ UNCHANGED <<eose_seen, notFeedVars>>

FeedProducer(r) ==
    \/ FeedUrlInvalid(r) \/ FeedConnectFail(r) \/ FeedReqFail(r)
    \/ FeedSubscribed(r)
    \/ FeedRecvEvent(r) \/ FeedRecvEose(r) \/ FeedRecvIgnored(r)
    \/ FeedRecvClosed(r) \/ FeedDeadline(r)

FeedNext ==
    \/ StartFeedStream
    \/ \E r \in Relays : FeedProducer(r)
    \/ FeedConsume
    \/ FeedChannelClosed

-----------------------------------------------------------------------------
(* JSON texts as the stream of parse events both JSON parsers produce: the
   json crate builds its value from it, actson and the JsonContentHandler of
   nostr.rs hand it to the caller one event at a time. Field names are atoms;
   string values are sequences of characters. *)

Tok(ev, name, str, num) == [ev |-> ev, name |-> name, s |-> str, n |-> num]

StartArray == Tok("StartArray", "", <<>>, 0)
EndArray == Tok("EndArray", "", <<>>, 0)
StartObject == Tok("StartObject", "", <<>>, 0)
EndObject == Tok("EndObject", "", <<>>, 0)
FieldName(name) == Tok("FieldName", name, <<>>, 0)
ValueString(str) == Tok("ValueString", "", str, 0)
ValueInt(num) == Tok("ValueInt", "", <<>>, num)
ValueTrue == Tok("ValueTrue", "", <<>>, 0)
ValueFalse == Tok("ValueFalse", "", <<>>, 0)
ValueNull == Tok("ValueNull", "", <<>>, 0)
\* the place where the text stops being JSON
SyntaxError == Tok("SyntaxError", "", <<>>, 0)

RECURSIVE Concat(_)
Concat(seqs) == IF seqs = <<>> THEN <<>> ELSE Head(seqs) \o Concat(Tail(seqs))

\* JSON texts
JString(str) == <<ValueString(str)>>
JBool(bool) == <<IF bool THEN ValueTrue ELSE ValueFalse>>
JInt(num) == <<ValueInt(num)>>
JNull == <<ValueNull>>
JArray(elems) == <<StartArray>> \o Concat(elems) \o <<EndArray>>
JField(name, value) == <<FieldName(name)>> \o value
JObject(fields) == <<StartObject>> \o Concat(fields) \o <<EndObject>>
InvalidJson == <<SyntaxError>>
NotAnArray == JString(<<"x">>)

\* Option<String>
None == [some |-> FALSE, v |-> <<>>]
Some(str) == [some |-> TRUE, v |-> str]
UnwrapOrDefault(opt) == IF opt.some THEN opt.v ELSE <<>>

\* n.max(0) as u64 / as u32
MaxZero(num) == IF num < 0 THEN 0 ELSE num

-----------------------------------------------------------------------------
(* nostr::parse_event: EventHandler (nostr.rs 147-261, 338-352) *)

\* nostr::Event (nostr.rs 26-47)
NostrEvent(id, pubkey, created_at, kind, tags, content, sig) ==
    [id |-> id, pubkey |-> pubkey, created_at |-> created_at, kind |-> kind,
     tags |-> tags, content |-> content, sig |-> sig]

NoEvent == NostrEvent(<<>>, <<>>, 0, 0, <<>>, <<>>, <<>>)

\* EventHandler::new
EventHandlerNew ==
    [depth |-> 0, tags_depth |-> 0, current_field |-> "", current_tag |-> <<>>,
     id |-> None, pubkey |-> None, created_at |-> 0, kind |-> 0, tags |-> <<>>,
     content |-> <<>>, sig |-> None]

\* string_value: a member of a tag inside the tags array, or a field at depth 1
EventHandlerString(h, value) ==
    IF h.tags_depth = 2
    THEN [h EXCEPT !.current_tag = Append(h.current_tag, value)]
    ELSE IF h.depth = 1
    THEN CASE h.current_field = "id" -> [h EXCEPT !.id = Some(value)]
           [] h.current_field = "pubkey" -> [h EXCEPT !.pubkey = Some(value)]
           [] h.current_field = "content" -> [h EXCEPT !.content = value]
           [] h.current_field = "sig" -> [h EXCEPT !.sig = Some(value)]
           [] OTHER -> h
    ELSE h

\* number_value
EventHandlerNumber(h, num) ==
    IF h.depth = 1
    THEN CASE h.current_field = "created_at" -> [h EXCEPT !.created_at = MaxZero(num)]
           [] h.current_field = "kind" -> [h EXCEPT !.kind = MaxZero(num)]
           [] OTHER -> h
    ELSE h

\* end_array
EventHandlerEndArray(h) ==
    LET after ==
            IF h.tags_depth = 2 /\ h.depth = 3
            THEN [h EXCEPT !.tags = IF h.current_tag # <<>>
                                    THEN Append(h.tags, h.current_tag) ELSE h.tags,
                           !.current_tag = <<>>]
            ELSE IF h.tags_depth = 2 /\ h.depth = 2 THEN [h EXCEPT !.tags_depth = 0]
            ELSE IF h.tags_depth = 1 /\ h.depth = 2 THEN [h EXCEPT !.tags_depth = 0]
            ELSE h
    IN  [after EXCEPT !.depth = h.depth - 1]

\* the handler's callback for one parse event
EventHandlerOn(h, tok) ==
    CASE tok.ev = "StartObject" -> [h EXCEPT !.depth = h.depth + 1]
      [] tok.ev = "EndObject" -> [h EXCEPT !.depth = h.depth - 1]
      [] tok.ev = "StartArray" ->
             IF h.tags_depth \in {1, 2}
             THEN [h EXCEPT !.depth = h.depth + 1, !.tags_depth = 2, !.current_tag = <<>>]
             ELSE [h EXCEPT !.depth = h.depth + 1]
      [] tok.ev = "EndArray" -> EventHandlerEndArray(h)
      [] tok.ev = "FieldName" ->
             [h EXCEPT !.current_field = tok.name,
                       !.tags_depth = IF h.depth = 1 /\ tok.name = "tags" THEN 1
                                      ELSE h.tags_depth]
      [] tok.ev = "ValueString" -> EventHandlerString(h, tok.s)
      [] tok.ev = "ValueInt" -> EventHandlerNumber(h, tok.n)
      [] OTHER -> h

\* the callbacks in the order of the parse events (the handler's state is a
\* value before each callback)
RECURSIVE EventHandlerRun(_, _)
EventHandlerRun(h, toks) ==
    IF toks = <<>> THEN h
    ELSE CHOOSE after \in {EventHandlerRun(EventHandlerOn(before, Head(toks)), Tail(toks)) :
                              before \in {h}} : TRUE

\* Result<Event, String>
EventOk(event) == [ok |-> TRUE, event |-> event]
EventErr == [ok |-> FALSE, event |-> NoEvent]

\* take_event: id, pubkey and sig are required
TakeEvent(h) ==
    IF h.id.some /\ h.pubkey.some /\ h.sig.some
    THEN EventOk(NostrEvent(h.id.v, h.pubkey.v, h.created_at, h.kind, h.tags,
                            h.content, h.sig.v))
    ELSE EventErr

\* nostr::parse_event
ParseEvent(json_str) ==
    LET Parsed(toks) ==
            IF \E i \in 1..Len(toks) : toks[i].ev = "SyntaxError" THEN EventErr
            ELSE TakeEvent(EventHandlerRun(EventHandlerNew, toks))
    IN  CHOOSE result \in {Parsed(toks) : toks \in {json_str}} : TRUE

-----------------------------------------------------------------------------
(* Relay messages: parse_relay_message (relay.rs 212-310) *)

\* the change of nesting depth a parse event makes
DepthChange(tok) ==
    CASE tok.ev \in {"StartArray", "StartObject"} -> 1
      [] tok.ev \in {"EndArray", "EndObject"} -> -1
      [] OTHER -> 0

\* the members of an array, each as its own JSON text: `toks` is what follows
\* the array's opening bracket, `cur` the member being read, `depth` its depth
RECURSIVE MembersFrom(_, _, _, _)
MembersFrom(toks, depth, cur, acc) ==
    IF toks = <<>> THEN acc
    ELSE LET tok == Head(toks)
             d == depth + DepthChange(tok)
         IN  IF d < 0 THEN acc
             ELSE IF d = 0
             THEN MembersFrom(Tail(toks), 0, <<>>, Append(acc, Append(cur, tok)))
             ELSE MembersFrom(Tail(toks), d, Append(cur, tok), acc)

\* json::parse: Err, or a value; of an array value, its members
IsValidJson(text) == \A i \in 1..Len(text) : text[i].ev # "SyntaxError"
IsArray(text) == text # <<>> /\ text[1].ev = "StartArray"
Members(text) == MembersFrom(Tail(text), 0, <<>>, <<>>)

\* parsed[i]: indexing past the end yields Null (i counts from 0)
At(parsed, i) == IF i + 1 <= Len(Members(parsed)) THEN Members(parsed)[i + 1] ELSE JNull

IsString(value) == Len(value) = 1 /\ value[1].ev = "ValueString"
AsStr(value) == value[1].s
\* as_bool().unwrap_or(false)
AsBoolOrFalse(value) == Len(value) = 1 /\ value[1].ev = "ValueTrue"

\* RelayMessage, or the Err of the parser (kind "Err"). id is the
\* subscription id of EVENT and EOSE and the event id of OK.
RelayMessageOf(kind, id, success, message, event, raw) ==
    [kind |-> kind, id |-> id, success |-> success, message |-> message,
     event |-> event, raw |-> raw]

RelayMessage(kind, id, success, message) ==
    RelayMessageOf(kind, id, success, message, NoEvent, <<>>)

ParseError == RelayMessage("Err", <<>>, FALSE, <<>>)

\* parse_relay_message
ParseRelayMessage(text) ==
    IF ~IsValidJson(text) THEN ParseError
    ELSE IF ~IsArray(text) THEN ParseError
    ELSE IF ~IsString(At(text, 0)) THEN ParseError
    ELSE LET msg_type == AsStr(At(text, 0)) IN
         CASE msg_type = StrEVENT ->
                  IF ~IsString(At(text, 1)) THEN ParseError
                  ELSE IF ~ParseEvent(At(text, 2)).ok THEN ParseError
                  ELSE RelayMessageOf("Event", AsStr(At(text, 1)), FALSE, <<>>,
                                      ParseEvent(At(text, 2)).event, <<>>)
           [] msg_type = StrEOSE ->
                  IF ~IsString(At(text, 1)) THEN ParseError
                  ELSE RelayMessage("EndOfStoredEvents", AsStr(At(text, 1)), FALSE, <<>>)
           [] msg_type = StrNOTICE ->
                  RelayMessage("Notice", <<>>, FALSE,
                               IF IsString(At(text, 1)) THEN AsStr(At(text, 1))
                               ELSE MsgUnknownNotice)
           [] msg_type = StrOK ->
                  RelayMessage("Ok",
                               IF IsString(At(text, 1)) THEN AsStr(At(text, 1)) ELSE <<>>,
                               AsBoolOrFalse(At(text, 2)),
                               IF IsString(At(text, 3)) THEN AsStr(At(text, 3)) ELSE <<>>)
           [] OTHER -> RelayMessageOf("Unknown", <<>>, FALSE, <<>>, NoEvent, text)

\* an event object; `valid` tells whether it has the fields nostr::parse_event
\* requires
JEventObject(id, valid) ==
    JObject(<<JField("id", JString(id))>>
            \o (IF valid THEN <<JField("pubkey", JString(<<"p">>)),
                                JField("sig", JString(<<"g">>))>>
                ELSE <<>>))

-----------------------------------------------------------------------------
(* Relay messages on the streaming path: parse_relay_message_actson
   (relay.rs 321-514) *)

IsSome(opt, str) == opt.some /\ opt.v = str

\* the locals before the loop (relay.rs 326-346); ret is the value of an early
\* return
ActsonNew ==
    [depth |-> 0, top_level_index |-> -1, msg_type |-> None, second_str |-> None,
     sub_id |-> None, ok_event_id |-> None, ok_success |-> FALSE, ok_message |-> None,
     current_field |-> "", event_id |-> None, event_pubkey |-> None,
     event_created_at |-> 0, event_kind |-> 0, event_content |-> <<>>,
     event_sig |-> None, event_tags |-> <<>>, current_tag |-> <<>>, tags_depth |-> 0,
     returned |-> FALSE, ret |-> ParseError]

\* JsonEvent::StartArray (relay.rs 360-369)
ActsonStartArray(a) ==
    LET depth == a.depth + 1 IN
    IF depth = 1 THEN [a EXCEPT !.depth = depth, !.top_level_index = 0]
    ELSE IF a.tags_depth = 1 THEN [a EXCEPT !.depth = depth, !.tags_depth = 2]
    ELSE IF a.tags_depth = 2 THEN [a EXCEPT !.depth = depth, !.current_tag = <<>>]
    ELSE [a EXCEPT !.depth = depth]

\* JsonEvent::EndArray (relay.rs 370-380)
ActsonEndArray(a) ==
    LET after ==
            IF a.tags_depth = 2 /\ a.depth = 4
            THEN [a EXCEPT !.event_tags = IF a.current_tag # <<>>
                                          THEN Append(a.event_tags, a.current_tag)
                                          ELSE a.event_tags,
                           !.current_tag = <<>>]
            ELSE IF a.tags_depth = 2 /\ a.depth = 3 THEN [a EXCEPT !.tags_depth = 0]
            ELSE a
    IN  [after EXCEPT !.depth = a.depth - 1]

\* JsonEvent::StartObject (relay.rs 381-397)
ActsonStartObject(a) ==
    LET depth == a.depth + 1
        counted == [a EXCEPT !.depth = depth,
                             !.top_level_index = IF depth = 1 THEN a.top_level_index + 1
                                                 ELSE a.top_level_index]
    IN  IF depth = 2 /\ IsSome(a.msg_type, StrEVENT)
        THEN [counted EXCEPT !.current_field = "", !.event_id = None,
                             !.event_pubkey = None, !.event_created_at = 0,
                             !.event_kind = 0, !.event_content = <<>>,
                             !.event_sig = None, !.event_tags = <<>>]
        ELSE counted

\* JsonEvent::EndObject (relay.rs 398-417): the event object is complete
ActsonEndObject(a) ==
    LET depth == a.depth - 1 IN
    IF depth = 1 /\ IsSome(a.msg_type, StrEVENT) /\ a.second_str.some
    THEN [a EXCEPT !.depth = depth, !.returned = TRUE,
                   !.ret = RelayMessageOf("Event", UnwrapOrDefault(a.sub_id), FALSE, <<>>,
                               NostrEvent(UnwrapOrDefault(a.event_id),
                                          UnwrapOrDefault(a.event_pubkey),
                                          a.event_created_at, a.event_kind,
                                          a.event_tags, a.event_content,
                                          UnwrapOrDefault(a.event_sig)),
                               <<>>)]
    ELSE [a EXCEPT !.depth = depth]

\* JsonEvent::FieldName (relay.rs 418-425)
ActsonFieldName(a, name) ==
    [a EXCEPT !.current_field = name,
              !.tags_depth = IF a.depth = 2 /\ name = "tags" THEN 1 ELSE a.tags_depth]

\* JsonEvent::ValueString (relay.rs 426-452)
ActsonValueString(a, str) ==
    IF a.depth = 1
    THEN LET top_level_index == a.top_level_index + 1
             counted == [a EXCEPT !.top_level_index = top_level_index]
         IN  IF top_level_index = 1 THEN [counted EXCEPT !.msg_type = Some(str)]
             ELSE IF top_level_index = 2
             THEN [counted EXCEPT !.second_str = Some(str), !.sub_id = Some(str),
                                  !.ok_event_id = Some(str)]
             ELSE IF top_level_index = 4 /\ IsSome(a.msg_type, StrOK)
             THEN [counted EXCEPT !.ok_message = Some(str)]
             ELSE counted
    ELSE IF a.depth >= 2 /\ a.tags_depth = 0
    THEN IF a.tags_depth = 2
         THEN [a EXCEPT !.current_tag = Append(a.current_tag, str)]
         ELSE CASE a.current_field = "id" -> [a EXCEPT !.event_id = Some(str)]
                [] a.current_field = "pubkey" -> [a EXCEPT !.event_pubkey = Some(str)]
                [] a.current_field = "content" -> [a EXCEPT !.event_content = str]
                [] a.current_field = "sig" -> [a EXCEPT !.event_sig = Some(str)]
                [] OTHER -> a
    ELSE a

\* JsonEvent::ValueInt (relay.rs 453-469)
ActsonValueInt(a, num) ==
    IF a.depth = 2
    THEN CASE a.current_field = "created_at" -> [a EXCEPT !.event_created_at = MaxZero(num)]
           [] a.current_field = "kind" -> [a EXCEPT !.event_kind = MaxZero(num)]
           [] OTHER -> a
    ELSE a

\* a boolean that is read but not counted as a member
ActsonValueBoolUncounted(a, bool) ==
    IF a.depth = 1
    THEN [a EXCEPT !.ok_success = IF a.top_level_index = 2 /\ IsSome(a.msg_type, StrOK)
                                  THEN bool ELSE a.ok_success]
    ELSE a

\* JsonEvent::ValueTrue | ValueFalse (relay.rs 485-492)
ActsonValueBool(a, bool) ==
    IF a.depth = 1
    THEN LET top_level_index == a.top_level_index + 1 IN
         [a EXCEPT !.top_level_index = top_level_index,
                   !.ok_success = IF top_level_index = 3 /\ IsSome(a.msg_type, StrOK)
                                  THEN bool ELSE a.ok_success]
    ELSE a

\* one turn of the loop (relay.rs 348-495)
ActsonOn(a, tok) ==
    IF a.returned THEN a
    ELSE CASE tok.ev = "SyntaxError" -> [a EXCEPT !.returned = TRUE, !.ret = ParseError]
           [] tok.ev = "StartArray" -> ActsonStartArray(a)
           [] tok.ev = "EndArray" -> ActsonEndArray(a)
           [] tok.ev = "StartObject" -> ActsonStartObject(a)
           [] tok.ev = "EndObject" -> ActsonEndObject(a)
           [] tok.ev = "FieldName" -> ActsonFieldName(a, tok.name)
           [] tok.ev = "ValueString" -> ActsonValueString(a, tok.s)
           [] tok.ev = "ValueInt" -> ActsonValueInt(a, tok.n)
           [] tok.ev = "ValueTrue" -> ActsonValueBool(a, TRUE)
           [] tok.ev = "ValueFalse" -> ActsonValueBool(a, FALSE)
           [] OTHER -> a

RECURSIVE ActsonRun(_, _)
ActsonRun(a, toks) ==
    IF toks = <<>> THEN a
    ELSE CHOOSE after \in {ActsonRun(ActsonOn(before, Head(toks)), Tail(toks)) :
                              before \in {a}} : TRUE

\* end of input (relay.rs 497-513)
ActsonEndOfInput(a, message) ==
    IF IsSome(a.msg_type, StrEOSE)
    THEN RelayMessage("EndOfStoredEvents", UnwrapOrDefault(a.second_str), FALSE, <<>>)
    ELSE IF IsSome(a.msg_type, StrNOTICE)
    THEN RelayMessage("Notice", <<>>, FALSE,
                      IF a.second_str.some THEN a.second_str.v ELSE MsgUnknownNotice)
    ELSE IF IsSome(a.msg_type, StrOK)
    THEN RelayMessage("Ok", UnwrapOrDefault(a.ok_event_id), a.ok_success,
                      UnwrapOrDefault(a.ok_message))
    ELSE RelayMessageOf("Unknown", <<>>, FALSE, <<>>, NoEvent, message)

\* parse_relay_message_actson
ParseRelayMessageActson(message) ==
    LET a == ActsonRun(ActsonNew, message)
    IN  IF a.returned THEN a.ret ELSE ActsonEndOfInput(a, message)

\* texts a relay may send
OkTexts ==
    {JArray(<<JString(StrOK), JString(id), JBool(b), JString(m)>>) :
        id \in {PublishedId, OtherId}, b \in BOOLEAN, m \in {TextEmpty, TextSpam}}
    \cup {JArray(<<JString(StrOK), JString(PublishedId)>>)}

NoticeTexts ==
    {JArray(<<JString(StrNOTICE), JString(m)>>) :
        m \in {TextHello, TextAboutId, TextERROR}}
    \cup {JArray(<<JString(StrNOTICE)>>)}

OtherTexts ==
    { JArray(<<JString(StrEOSE), JString(TextSub)>>),
      JArray(<<JString(StrEVENT), JString(TextSub), JEventObject(OtherId, TRUE)>>),
      JArray(<<JString(StrEVENT), JString(TextSub), JEventObject(PublishedId, TRUE)>>),
      JArray(<<JString(StrEVENT), JString(TextSub), JEventObject(OtherId, FALSE)>>),
      JArray(<<JString(TextAUTH), JString(TextSub)>>),
      NotAnArray, InvalidJson }

RelayTexts == OkTexts \cup NoticeTexts \cup OtherTexts

-----------------------------------------------------------------------------
(* RelayConnection (relay.rs 36-192) *)

\* what socket.read() can return: a message of some kind, or an error
Frame(kind, text) == [kind |-> kind, text |-> text]

Frames ==
    {Frame("Text", t) : t \in RelayTexts}
    \cup {Frame("Binary", t) : t \in {JArray(<<JString(StrOK), JString(PublishedId),
                                               JBool(FALSE), JString(TextSpam)>>)}}
    \cup {Frame(k, InvalidJson) :
            k \in {"BinaryNotUtf8", "Ping", "Pong", "Close", "Frame", "ReadError"}}

\* Result<String, String> of send and receive: ok with a text, or an error message
RecvOk(text) == [ok |-> TRUE, text |-> text, err |-> <<>>]
RecvErr(msg) == [ok |-> FALSE, text |-> InvalidJson, err |-> msg]

\* RelayConnection::receive: the value returned for what socket.read() yields
Receive(is_connected, has_socket, frame) ==
    IF ~is_connected THEN RecvErr(MsgNotConnected)
    ELSE IF ~has_socket THEN RecvErr(MsgNoSocket)
    ELSE CASE frame.kind = "Text" -> RecvOk(frame.text)
           [] frame.kind = "Binary" -> RecvOk(frame.text)
           [] frame.kind = "BinaryNotUtf8" -> RecvErr(MsgInvalidUtf8 \o ErrText)
           [] frame.kind = "Ping" -> RecvErr(MsgReceivedPing)
           [] frame.kind = "Pong" -> RecvErr(MsgReceivedPong)
           [] frame.kind = "Close" -> RecvErr(MsgClosedByRelay)
           [] frame.kind = "Frame" -> RecvErr(MsgRawFrame)
           [] frame.kind = "ReadError" -> RecvErr(MsgReceiveFailed \o ErrText)

\* `connected` left as it was by receive
ConnectedAfterReceiveKept(is_connected, has_socket, frame) == is_connected

\* RelayConnection::receive: `connected` afterwards (cleared on Close and on a
\* read error)
ConnectedAfterReceive(is_connected, has_socket, frame) ==
    IF is_connected /\ has_socket /\ frame.kind \in {"Close", "ReadError"}
    THEN FALSE
    ELSE is_connected

\* Url::parse accepts the URL
Urls == {<<"w", "s", "s", ":", "/", "/", "a">>, <<"w", "s", "s", ":", "/", "/", "b">>,
         <<"b", "a", "d">>}
UrlParses(url) == Len(url) >= 6 /\ SubSeq(url, 1, 6) = <<"w", "s", "s", ":", "/", "/">>

ConnIdle ==
    /\ connected = FALSE
    /\ socket = FALSE
    /\ inbox = <<>>
    /\ elapsed = FALSE

-----------------------------------------------------------------------------
(* Publishing: a publish command, publish_event_to_relays,
   publish_event_to_relay *)

PublishResult(url, success, message) ==
    [relay_url |-> url, success |-> success, message |-> message]

\* the relay publish_event_to_relays is at
CurrentUrl == relay_urls[pub_idx + 1]

PubIdle ==
    /\ command = "none"
    /\ relay_urls = <<>>
    /\ pub_idx = 0
    /\ results = <<>>
    /\ relay_returns = <<>>
    /\ pubPc = "idle"
    /\ commandResult = "none"

\* a publish command is invoked; cfg.relays is any list of URLs
PubInit ==
    /\ command \in {"post_note", "send_dm"}
    /\ relay_urls \in SeqsUpTo(Urls, MaxRelays)
    /\ pub_idx = 0
    /\ results = <<>>
    /\ relay_returns = <<>>
    /\ pubPc = "command"
    /\ commandResult = "none"
    /\ ConnIdle

\* post_note refuses an empty relay list (main.rs 805-807); send_dm does not
\* look; then publish_event_to_relays is called (main.rs 819, 938)
PubCommandStart ==
    /\ pubPc = "command"
    /\ IF command = "post_note" /\ relay_urls = <<>>
       THEN /\ pubPc' = "finished"
            /\ commandResult' = "Err"
       ELSE /\ pubPc' = "loop"
            /\ commandResult' = commandResult
    /\ UNCHANGED <<command, relay_urls, pub_idx, results, relay_returns, connVars>>
    /\ UNCHANGED notPubVars

\* an Err of publish_event_to_relay skipped instead of reported
PubPushSkipsErr(ret, success, message) ==
    /\ results' = IF ret = "Err" THEN results
                  ELSE Append(results, PublishResult(CurrentUrl, success, message))
    /\ relay_returns' = Append(relay_returns, ret)
    /\ pub_idx' = pub_idx + 1
    /\ pubPc' = "loop"
    /\ connected' = FALSE
    /\ socket' = FALSE
    /\ inbox' = <<>>
    /\ elapsed' = FALSE

\* publish_event_to_relay has returned (Ok(result) or Err(e)): the loop of
\* publish_event_to_relays pushes one PublishResult (relay.rs 1126-1140); the
\* RelayConnection is gone
PubPush(ret, success, message) ==
    /\ results' = Append(results, PublishResult(CurrentUrl, success, message))
    /\ relay_returns' = Append(relay_returns, ret)
    /\ pub_idx' = pub_idx + 1
    /\ pubPc' = "loop"
    /\ connected' = FALSE
    /\ socket' = FALSE
    /\ inbox' = <<>>
    /\ elapsed' = FALSE

\* relay.connect()?: Url::parse fails (relay.rs 62-65, 1047, 1132-1138)
PubConnectInvalidUrl ==
    /\ pubPc = "loop"
    /\ pub_idx < Len(relay_urls)
    /\ ~UrlParses(CurrentUrl)
    /\ PubPush("Err", FALSE, MsgInvalidUrl \o ErrText)
    /\ UNCHANGED <<command, relay_urls, commandResult>>
    /\ UNCHANGED notPubVars

\* relay.connect()?: connect fails (relay.rs 75-78, 1047, 1132-1138)
PubConnectFail ==
    /\ pubPc = "loop"
    /\ pub_idx < Len(relay_urls)
    /\ UrlParses(CurrentUrl)
    /\ PubPush("Err", FALSE, MsgConnectFailed \o CurrentUrl \o <<":", " ">> \o ErrText)
    /\ UNCHANGED <<command, relay_urls, commandResult>>
    /\ UNCHANGED notPubVars

\* relay.connect()? succeeds (relay.rs 69-74)
PubConnectOk ==
    /\ pubPc = "loop"
    /\ pub_idx < Len(relay_urls)
    /\ UrlParses(CurrentUrl)
    /\ connected' = TRUE
    /\ socket' = TRUE
    /\ pubPc' = "publishing"
    /\ UNCHANGED <<command, relay_urls, pub_idx, results, relay_returns, commandResult,
                   inbox, elapsed>>
    /\ UNCHANGED notPubVars

\* relay.publish_event(event)?: socket.send fails (relay.rs 106-108, 1050)
PubSendFail ==
    /\ pubPc = "publishing"
    /\ PubPush("Err", FALSE, MsgSendFailed \o ErrText)
    /\ UNCHANGED <<command, relay_urls, commandResult>>
    /\ UNCHANGED notPubVars

\* relay.publish_event(event)? succeeds; start_time is taken (relay.rs 1050-1054)
PubSendOk ==
    /\ pubPc = "publishing"
    /\ pubPc' = "waiting"
    /\ elapsed' = FALSE
    /\ UNCHANGED <<command, relay_urls, pub_idx, results, relay_returns, commandResult,
                   connected, socket, inbox>>
    /\ UNCHANGED notPubVars

\* top of the wait loop: the timeout check (relay.rs 1057-1065)
PubCheckTimeout ==
    /\ pubPc = "waiting"
    /\ IF elapsed
       THEN PubPush("Ok", FALSE, MsgTimeout)
       ELSE /\ pubPc' = "receiving"
            /\ UNCHANGED <<pub_idx, results, relay_returns, connVars>>
    /\ UNCHANGED <<command, relay_urls, commandResult>>
    /\ UNCHANGED notPubVars

\* a NOTICE that appears to be about the event (relay.rs 1085)
NoticeRelated(message) ==
    Contains(message, PublishedId) \/ Contains(ToLowercase(message), StrError)

\* the id check left out: any OK counts
OkMatchesAny(event_id) == TRUE

\* an OK for the published event (relay.rs 1073)
OkMatches(event_id) == event_id = PublishedId

\* an error of receive that only reports a ping or a pong (relay.rs 1103)
IsPingPong(e) == Contains(e, StrPing) \/ Contains(e, StrPong)

\* the relay's verdict discarded: a matching OK always counts as accepted
PubOutcomeAccepts(received) ==
    IF received.ok
    THEN LET msg == ParseRelayMessage(received.text) IN
         IF msg.kind = "Ok" /\ msg.id = PublishedId
         THEN [wait |-> FALSE, success |-> TRUE, message |-> <<>>]
         ELSE IF msg.kind = "Notice"
                 /\ (Contains(msg.message, PublishedId)
                     \/ Contains(ToLowercase(msg.message), StrError))
         THEN [wait |-> FALSE, success |-> FALSE, message |-> msg.message]
         ELSE [wait |-> TRUE, success |-> FALSE, message |-> <<>>]
    ELSE IF Contains(received.err, StrPing) \/ Contains(received.err, StrPong)
         THEN [wait |-> TRUE, success |-> FALSE, message |-> <<>>]
         ELSE [wait |-> FALSE, success |-> FALSE, message |-> received.err]

\* a text that does not parse ends the wait as a failure
PubOutcomeStopsOnBadText(received) ==
    IF received.ok
    THEN LET msg == ParseRelayMessage(received.text) IN
         IF msg.kind = "Ok" /\ OkMatches(msg.id)
         THEN [wait |-> FALSE, success |-> msg.success, message |-> msg.message]
         ELSE IF msg.kind = "Notice" /\ NoticeRelated(msg.message)
         THEN [wait |-> FALSE, success |-> FALSE, message |-> msg.message]
         ELSE IF msg.kind = "Err"
         THEN [wait |-> FALSE, success |-> FALSE, message |-> <<>>]
         ELSE [wait |-> TRUE, success |-> FALSE, message |-> <<>>]
    ELSE IF IsPingPong(received.err)
         THEN [wait |-> TRUE, success |-> FALSE, message |-> <<>>]
         ELSE [wait |-> FALSE, success |-> FALSE, message |-> received.err]

\* "wait": the message is ignored and the loop goes round; otherwise the
\* PublishResult (success, message) that ends the wait (relay.rs 1068-1113)
PubOutcome(received) ==
    IF received.ok
    THEN LET msg == ParseRelayMessage(received.text) IN
         IF msg.kind = "Ok" /\ OkMatches(msg.id)
         THEN [wait |-> FALSE, success |-> msg.success, message |-> msg.message]
         ELSE IF msg.kind = "Notice" /\ NoticeRelated(msg.message)
         THEN [wait |-> FALSE, success |-> FALSE, message |-> msg.message]
         ELSE [wait |-> TRUE, success |-> FALSE, message |-> <<>>]
    ELSE IF IsPingPong(received.err)
         THEN [wait |-> TRUE, success |-> FALSE, message |-> <<>>]
         ELSE [wait |-> FALSE, success |-> FALSE, message |-> received.err]

\* relay.receive() returns: socket.read() blocks until the relay has sent
\* something (relay.rs 1068-1113)
PubReceive ==
    /\ pubPc = "receiving"
    /\ inbox # <<>>
    /\ LET frame == Head(inbox)
           outcome == PubOutcome(Receive(connected, socket, frame))
       IN  IF outcome.wait
           THEN /\ pubPc' = "waiting"
                /\ inbox' = Tail(inbox)
                /\ connected' = ConnectedAfterReceive(connected, socket, frame)
                /\ UNCHANGED <<pub_idx, results, relay_returns, socket, elapsed>>
           ELSE PubPush("Ok", outcome.success, outcome.message)
    /\ UNCHANGED <<command, relay_urls, commandResult>>
    /\ UNCHANGED notPubVars

\* the for loop of publish_event_to_relays is over: return results
\* (relay.rs 1143)
PubReturn ==
    /\ pubPc = "loop"
    /\ pub_idx = Len(relay_urls)
    /\ pubPc' = "returned"
    /\ UNCHANGED <<command, relay_urls, pub_idx, results, relay_returns, commandResult,
                   connVars>>
    /\ UNCHANGED notPubVars

\* results.iter().filter(|r| r.success).count()
SuccessCount(res) == Cardinality({i \in 1..Len(res) : res[i].success})

\* an error unless every relay accepted
NotAllAccepted(res) == SuccessCount(res) < Len(res)

\* the command's check of the results (main.rs 820-823, 939-942)
NoneAccepted(res) == SuccessCount(res) = 0

\* the end of post_note (main.rs 820-824)
PubFinishPostNote ==
    /\ pubPc = "returned"
    /\ command = "post_note"
    /\ pubPc' = "finished"
    /\ commandResult' = IF NoneAccepted(results) THEN "Err" ELSE "Ok"
    /\ UNCHANGED <<command, relay_urls, pub_idx, results, relay_returns, connVars>>
    /\ UNCHANGED notPubVars

\* the end of send_dm: after a successful publish the event is appended to the
\* conversation file, and a failure of that is an Err too (main.rs 939-946)
PubFinishSendDm ==
    /\ pubPc = "returned"
    /\ command = "send_dm"
    /\ pubPc' = "finished"
    /\ \E saved \in BOOLEAN :
           commandResult' = IF NoneAccepted(results) THEN "Err"
                            ELSE IF saved THEN "Ok" ELSE "Err"
    /\ UNCHANGED <<command, relay_urls, pub_idx, results, relay_returns, connVars>>
    /\ UNCHANGED notPubVars

\* the relay sends something
PubRelaySends ==
    /\ pubPc \in {"publishing", "waiting", "receiving"}
    /\ inbox = <<>>
    /\ \E frame \in Frames : inbox' = <<frame>>
    /\ UNCHANGED <<connected, socket, elapsed, pubVars>>
    /\ UNCHANGED notPubVars

\* time passes: the timeout is over
PubTick ==
    /\ pubPc \in {"waiting", "receiving"}
    /\ ~elapsed
    /\ elapsed' = TRUE
    /\ UNCHANGED <<connected, socket, inbox, pubVars>>
    /\ UNCHANGED notPubVars

\* the steps of the program itself
PubProgram ==
    \/ PubCommandStart
    \/ PubConnectInvalidUrl \/ PubConnectFail \/ PubConnectOk
    \/ PubSendFail \/ PubSendOk
    \/ PubCheckTimeout \/ PubReceive
    \/ PubReturn \/ PubFinishPostNote \/ PubFinishSendDm

PubNext == PubProgram \/ PubRelaySends \/ PubTick

-----------------------------------------------------------------------------
(* One-shot fetch: fetch_notes_from_relay (relay.rs 675-744) *)

FetchIdle ==
    /\ fetch_url = <<>>
    /\ fetchPc = "idle"
    /\ events = <<>>
    /\ fetchResult = "none"
    /\ fetchExit = "none"

FetchInit ==
    /\ fetch_url \in Urls
    /\ fetchPc = "connect"
    /\ events = <<>>
    /\ fetchResult = "none"
    /\ fetchExit = "none"
    /\ ConnIdle

\* the function returns through `?` (relay.rs 682, 691)
FetchReturnErr(why) ==
    /\ fetchPc' = "returned"
    /\ fetchResult' = "Err"
    /\ fetchExit' = why
    /\ connected' = FALSE
    /\ socket' = FALSE
    /\ inbox' = <<>>
    /\ UNCHANGED <<fetch_url, events, elapsed>>

\* zero events reported as a failure
FetchLoopResultNonEmpty(evs) == IF evs = <<>> THEN "Err" ELSE "Ok"

\* what the function returns after its loop: Ok(events) (relay.rs 743)
FetchLoopResult(evs) == "Ok"

\* the loop is left: close_subscription (its result dropped), disconnect,
\* return Ok(events) (relay.rs 738-743)
FetchReturnAfterLoop(why) ==
    /\ fetchPc' = "returned"
    /\ fetchResult' = FetchLoopResult(events)
    /\ fetchExit' = why
    /\ connected' = FALSE
    /\ socket' = FALSE
    /\ inbox' = <<>>
    /\ UNCHANGED <<fetch_url, events, elapsed>>

\* relay.connect()?: Url::parse fails (relay.rs 62-65, 682)
FetchConnectInvalidUrl ==
    /\ fetchPc = "connect"
    /\ ~UrlParses(fetch_url)
    /\ FetchReturnErr("invalid_url")
    /\ UNCHANGED notFetchVars

\* relay.connect()?: connect fails (relay.rs 75-78, 682)
FetchConnectFail ==
    /\ fetchPc = "connect"
    /\ UrlParses(fetch_url)
    /\ FetchReturnErr("connect_failed")
    /\ UNCHANGED notFetchVars

\* relay.connect()? succeeds (relay.rs 69-74)
FetchConnectOk ==
    /\ fetchPc = "connect"
    /\ UrlParses(fetch_url)
    /\ connected' = TRUE
    /\ socket' = TRUE
    /\ fetchPc' = "subscribe"
    /\ UNCHANGED <<fetch_url, events, fetchResult, fetchExit, inbox, elapsed>>
    /\ UNCHANGED notFetchVars

\* relay.subscribe(..)?: sending the REQ fails (relay.rs 106-108, 691)
FetchSubscribeFail ==
    /\ fetchPc = "subscribe"
    /\ FetchReturnErr("subscribe_failed")
    /\ UNCHANGED notFetchVars

\* relay.subscribe(..)? succeeds; start_time is taken (relay.rs 691-696)
FetchSubscribeOk ==
    /\ fetchPc = "subscribe"
    /\ fetchPc' = "loop"
    /\ elapsed' = FALSE
    /\ UNCHANGED <<fetch_url, events, fetchResult, fetchExit, connected, socket, inbox>>
    /\ UNCHANGED notFetchVars

\* top of the loop: the timeout check (relay.rs 699-703)
FetchCheckTimeout ==
    /\ fetchPc = "loop"
    /\ IF elapsed
       THEN FetchReturnAfterLoop("timeout")
       ELSE /\ fetchPc' = "receiving"
            /\ UNCHANGED <<fetch_url, events, fetchResult, fetchExit, connVars>>
    /\ UNCHANGED notFetchVars

\* relay.receive() returns (relay.rs 706-735)
FetchReceive ==
    /\ fetchPc = "receiving"
    /\ inbox # <<>>
    /\ LET frame == Head(inbox)
           received == Receive(connected, socket, frame)
           msg == ParseRelayMessage(received.text)
           goOn == /\ fetchPc' = "loop"
                   /\ inbox' = Tail(inbox)
                   /\ connected' = ConnectedAfterReceive(connected, socket, frame)
                   /\ UNCHANGED <<fetch_url, fetchResult, fetchExit, socket, elapsed>>
       IN  IF received.ok
           THEN IF msg.kind = "Event"
                THEN goOn /\ events' = Append(events, msg.event.id)
                ELSE IF msg.kind = "EndOfStoredEvents"
                THEN FetchReturnAfterLoop("eose")
                ELSE goOn /\ events' = events
           ELSE IF IsPingPong(received.err)
                THEN goOn /\ events' = events
                ELSE FetchReturnAfterLoop("receive_error")
    /\ UNCHANGED notFetchVars

\* the relay sends something (no more EVENTs than the model's bound)
FetchRelaySends ==
    /\ fetchPc \in {"subscribe", "loop", "receiving"}
    /\ inbox = <<>>
    /\ \E frame \in Frames :
           /\ ParseRelayMessage(frame.text).kind = "Event" => Len(events) < MaxEvents
           /\ inbox' = <<frame>>
    /\ UNCHANGED <<connected, socket, elapsed, fetchVars>>
    /\ UNCHANGED notFetchVars

\* time passes: the timeout is over
FetchTick ==
    /\ fetchPc \in {"loop", "receiving"}
    /\ ~elapsed
    /\ elapsed' = TRUE
    /\ UNCHANGED <<connected, socket, inbox, fetchVars>>
    /\ UNCHANGED notFetchVars

FetchProgram ==
    \/ FetchConnectInvalidUrl \/ FetchConnectFail \/ FetchConnectOk
    \/ FetchSubscribeFail \/ FetchSubscribeOk
    \/ FetchCheckTimeout \/ FetchReceive

FetchNext == FetchProgram \/ FetchRelaySends \/ FetchTick

-----------------------------------------------------------------------------
(* fetch_replies_to_event and fetch_events_by_ids (main.rs 421-485) *)

ThreadCmds == {"fetch_replies_to_event", "fetch_events_by_ids"}

\* the tail of fetch_replies_to_event: the `seen` loop, then sort ascending;
\* `limit` went into the filter only (main.rs 429, 443-451)
RepliesMerge(evs, lim) == SortByCreatedAtAsc(DedupById(evs))

\* the tail of fetch_events_by_ids: the `seen` loop, then sort descending
\* (main.rs 476-484)
ByIdsMerge(evs) == SortByCreatedAtDesc(DedupById(evs))

ThreadIdle ==
    /\ threadCmd = "none"
    /\ threadPc = "idle"
    /\ key_empty = FALSE
    /\ thread_relays = 0
    /\ thread_limit = 0
    /\ thread_idx = 0
    /\ thread_events = <<>>
    /\ thread_errs = 0
    /\ threadResult = "none"
    /\ thread_unique = <<>>

\* one of the two commands is invoked
ThreadInit ==
    /\ threadCmd \in ThreadCmds
    /\ threadPc = "called"
    /\ key_empty \in BOOLEAN
    /\ thread_relays \in 0..MaxRelays
    /\ thread_limit \in (IF threadCmd = "fetch_replies_to_event" THEN 0..MaxLimit ELSE {0})
    /\ thread_idx = 0
    /\ thread_events = <<>>
    /\ thread_errs = 0
    /\ threadResult = "none"
    /\ thread_unique = <<>>

\* event_id.is_empty() / ids.is_empty(): Ok("[]") (main.rs 423-425, 456-458)
ThreadKeyEmpty ==
    /\ threadPc = "called"
    /\ key_empty
    /\ threadPc' = "done"
    /\ threadResult' = "Ok"
    /\ thread_unique' = <<>>
    /\ UNCHANGED <<threadCmd, key_empty, thread_relays, thread_limit, thread_idx,
                   thread_events, thread_errs>>
    /\ UNCHANGED notThreadVars

\* relay_urls.is_empty(): Err (main.rs 426-428, 459-461)
ThreadNoRelays ==
    /\ threadPc = "called"
    /\ ~key_empty
    /\ thread_relays = 0
    /\ threadPc' = "done"
    /\ threadResult' = "Err"
    /\ UNCHANGED <<threadCmd, key_empty, thread_relays, thread_limit, thread_idx,
                   thread_events, thread_errs, thread_unique>>
    /\ UNCHANGED notThreadVars

\* the filter is built and the for loop is entered (main.rs 429-431, 462-464)
ThreadStart ==
    /\ threadPc = "called"
    /\ ~key_empty
    /\ thread_relays > 0
    /\ threadPc' = "fetching"
    /\ UNCHANGED <<threadCmd, key_empty, thread_relays, thread_limit, thread_idx,
                   thread_events, thread_errs, threadResult, thread_unique>>
    /\ UNCHANGED notThreadVars

\* one iteration: the relay's fetch returned Ok(events) (main.rs 433-437, 466-470)
ThreadFetchOk ==
    /\ threadPc = "fetching"
    /\ thread_idx < thread_relays
    /\ \E fetched \in SeqsUpTo(Events, MaxEvents - Len(thread_events)) :
           thread_events' = thread_events \o fetched
    /\ thread_idx' = thread_idx + 1
    /\ UNCHANGED <<threadCmd, threadPc, key_empty, thread_relays, thread_limit,
                   thread_errs, threadResult, thread_unique>>
    /\ UNCHANGED notThreadVars

\* one iteration: the relay's fetch returned Err, which is only logged
\* (main.rs 438-440, 471-473)
ThreadFetchErr ==
    /\ threadPc = "fetching"
    /\ thread_idx < thread_relays
    /\ thread_idx' = thread_idx + 1
    /\ thread_errs' = thread_errs + 1
    /\ UNCHANGED <<threadCmd, threadPc, key_empty, thread_relays, thread_limit,
                   thread_events, threadResult, thread_unique>>
    /\ UNCHANGED notThreadVars

\* after the loop: dedup, sort, Ok (main.rs 443-451, 476-484)
ThreadFinish ==
    /\ threadPc = "fetching"
    /\ thread_idx = thread_relays
    /\ threadPc' = "done"
    /\ threadResult' = "Ok"
    /\ thread_unique' = IF threadCmd = "fetch_replies_to_event"
                 THEN RepliesMerge(thread_events, thread_limit)
                 ELSE ByIdsMerge(thread_events)
    /\ UNCHANGED <<threadCmd, key_empty, thread_relays, thread_limit, thread_idx,
                   thread_events, thread_errs>>
    /\ UNCHANGED notThreadVars

ThreadNext ==
    \/ ThreadKeyEmpty \/ ThreadNoRelays \/ ThreadStart
    \/ ThreadFetchOk \/ ThreadFetchErr \/ ThreadFinish

-----------------------------------------------------------------------------
(* The two relay-message parsers applied to one message *)

\* single tags
Tags == { <<<<"e">>, <<"x">>>>, <<<<"p">>, <<"y">>>> }
TagLists == SeqsUpTo(Tags, MaxTags)

JTag(tag) == JArray([i \in 1..Len(tag) |-> JString(tag[i])])
JTags(tags) == JArray([i \in 1..Len(tags) |-> JTag(tags[i])])

\* a member that is itself an object and repeats names of event fields
NestedMember ==
    JField("extra", JObject(<<JField("id", JString(<<"z">>)),
                              JField("created_at", JInt(9))>>))

\* the tags member of an event object: absent, a list of tags, or a tags
\* array whose one tag holds an object
TagsMembers ==
    {<<>>} \cup {<<JField("tags", JTags(tags))>> : tags \in TagLists}
    \cup {<<JField("tags", JArray(<<JArray(<<JObject(<<JField("id", JString(<<"z">>))>>)>>)>>))>>}

\* event objects a relay may send
EventObjects ==
    {JObject(before
             \o <<JField("id", JString(id)), JField("pubkey", JString(<<"p">>)),
                  JField("created_at", JInt(5)), JField("kind", JInt(1))>>
             \o tagsMember
             \o <<JField("content", JString(TextHello)), JField("sig", JString(<<"g">>))>>
             \o after) :
        id \in {PublishedId, OtherId}, tagsMember \in TagsMembers,
        before \in {<<>>, <<NestedMember>>}, after \in {<<>>, <<NestedMember>>}}

EventMessages ==
    {JArray(<<JString(StrEVENT), JString(TextSub), obj>>) : obj \in EventObjects}

\* well-formed messages of the other types
OtherMessages ==
    {JArray(<<JString(StrEOSE), JString(str)>>) : str \in {TextSub, TextEmpty, StrOK}}
    \cup {JArray(<<JString(StrNOTICE), JString(str)>>) : str \in {TextHello, TextEmpty, StrEVENT}}
    \cup {JArray(<<JString(StrOK), JString(id), JBool(b), JString(m)>>) :
             id \in {PublishedId, TextEmpty}, b \in BOOLEAN, m \in {TextEmpty, TextSpam}}
    \cup { JArray(<<JString(TextAUTH), JString(TextSub)>>),
           JArray(<<JString(TextAUTH), JString(TextSub), JObject(<<JField("id", JString(<<"z">>))>>)>>),
           JArray(<<JString(TextEmpty)>>) }

\* messages with a member missing or of the wrong type
MalformedMessages ==
    { JArray(<<JString(StrEVENT)>>),
      JArray(<<JString(StrEVENT), JString(TextSub)>>),
      JArray(<<JString(StrEVENT), JInt(1), JEventObject(OtherId, TRUE)>>),
      JArray(<<JString(StrEVENT), JString(TextSub), JString(TextHello)>>),
      JArray(<<JString(StrEOSE)>>),
      JArray(<<JString(StrEOSE), JInt(1)>>),
      JArray(<<JString(StrNOTICE)>>),
      JArray(<<JString(StrNOTICE), JBool(TRUE)>>),
      JArray(<<JString(StrOK)>>),
      JArray(<<JString(StrOK), JString(PublishedId)>>),
      JArray(<<JString(StrOK), JString(PublishedId), JBool(TRUE)>>),
      JArray(<<JString(StrOK), JString(PublishedId), JString(TextSpam), JBool(TRUE)>>),
      JArray(<<JString(StrOK), JInt(1), JBool(TRUE), JString(TextSpam)>>),
      JArray(<<JInt(1), JString(TextSub)>>),
      JArray(<<>>),
      NotAnArray, InvalidJson }

Messages == EventMessages \cup OtherMessages \cup MalformedMessages

\* a parser has not been called yet
NotParsed == RelayMessage("none", <<>>, FALSE, <<>>)

ParseIdle ==
    /\ relay_text = <<>>
    /\ jsonResult = NotParsed
    /\ actsonResult = NotParsed

ParseInit ==
    /\ relay_text \in Messages
    /\ jsonResult = NotParsed
    /\ actsonResult = NotParsed

\* parse_relay_message(message)
CallParseRelayMessage ==
    /\ relay_text # <<>>
    /\ jsonResult = NotParsed
    /\ jsonResult' = ParseRelayMessage(relay_text)
    /\ UNCHANGED <<relay_text, actsonResult>>
    /\ UNCHANGED notParseVars

\* parse_relay_message_actson(message)
CallParseRelayMessageActson ==
    /\ relay_text # <<>>
    /\ actsonResult = NotParsed
    /\ actsonResult' = ParseRelayMessageActson(relay_text)
    /\ UNCHANGED <<relay_text, jsonResult>>
    /\ UNCHANGED notParseVars

ParseNext == CallParseRelayMessage \/ CallParseRelayMessageActson

-----------------------------------------------------------------------------
(* The backoff table: relay::check_relay_backoff, relay::record_relay_success
   and the recording of a failure, as main.rs 494-531 calls them and as the
   specification describes them; test_relay_connection and
   get_relay_backoff_status; and the connection attempts of the relay
   operations (relay.rs 58-80, 532-538) *)

BackoffUrls == {url \in Urls : UrlParses(url)}

BackoffEntry(failure_count, next_retry_at) ==
    [failure_count |-> failure_count, next_retry_at |-> next_retry_at]

NoBackoff == BackoffEntry(0, 0)

\* the delay after the k-th consecutive failure: doubling
BackoffDelay(k) == 2 ^ (k - 1)

\* Option<u64>
NoneRemaining == [some |-> FALSE, v |-> 0]
SomeRemaining(t) == [some |-> TRUE, v |-> t]

\* check_relay_backoff(url): the time still to wait, if any
CheckRelayBackoff(table, url, time) ==
    IF table[url].failure_count > 0 /\ time < table[url].next_retry_at
    THEN SomeRemaining(table[url].next_retry_at - time)
    ELSE NoneRemaining

\* a success that leaves the entry as it is
RecordRelaySuccessKeeps(table, url) == table

\* record_relay_success(url): the entry is cleared
RecordRelaySuccess(table, url) == [table EXCEPT ![url] = NoBackoff]

\* a failed attempt is recorded: one more failure, the next retry later
RecordRelayFailure(table, url, time) ==
    [table EXCEPT ![url] =
        BackoffEntry(table[url].failure_count + 1,
                     time + BackoffDelay(table[url].failure_count + 1))]

BackoffOp(kind, url) == [kind |-> kind, url |-> url]
NoAttempt == [op |-> "none", url |-> <<>>, in_backoff |-> FALSE]

BackoffIdle ==
    /\ backoff = <<>>
    /\ now = 0
    /\ backoff_status = {}
    /\ backoff_op = BackoffOp("none", <<>>)
    /\ attempt = NoAttempt

\* the table is created empty
BackoffInit ==
    /\ backoff = [url \in BackoffUrls |-> NoBackoff]
    /\ now = 0
    /\ backoff_status = {}
    /\ backoff_op = BackoffOp("none", <<>>)
    /\ attempt = NoAttempt

\* a connection attempt to url failed and the failure is recorded
ConnectionFailureRecorded(url) ==
    /\ backoff # <<>>
    /\ backoff[url].failure_count < MaxFailures
    /\ backoff' = RecordRelayFailure(backoff, url, now)
    /\ backoff_op' = BackoffOp("failure", url)
    /\ backoff_status' = {}
    /\ attempt' = NoAttempt
    /\ UNCHANGED now
    /\ UNCHANGED notBackoffVars

\* test_relay_connection(relay_url): the table is not consulted; a success
\* clears the entry, a failure or a timeout leaves it (main.rs 494-509)
TestRelayConnection(url, outcome) ==
    /\ backoff # <<>>
    /\ IF outcome = "connected"
       THEN /\ backoff' = RecordRelaySuccess(backoff, url)
            /\ backoff_op' = BackoffOp("success", url)
       ELSE /\ backoff' = backoff
            /\ backoff_op' = BackoffOp("test_failed", url)
    /\ backoff_status' = {}
    /\ attempt' = NoAttempt
    /\ UNCHANGED now
    /\ UNCHANGED notBackoffVars

\* get_relay_backoff_status(relay_urls): the URLs in backoff with their
\* remaining time (main.rs 513-531)
GetRelayBackoffStatus(relay_url_set) ==
    /\ backoff # <<>>
    /\ backoff_status' =
           {<<url, CheckRelayBackoff(backoff, url, now).v>> :
               url \in {u \in relay_url_set : CheckRelayBackoff(backoff, u, now).some}}
    /\ backoff_op' = BackoffOp("status", <<>>)
    /\ attempt' = NoAttempt
    /\ UNCHANGED <<backoff, now>>
    /\ UNCHANGED notBackoffVars

\* a relay operation connects to its relay: RelayConnection::connect
\* (relay.rs 58-80, called at 682 and 1047) and connect_async in the stream
\* tasks (relay.rs 532-538). The table is neither read before nor written
\* after.
OperationConnects(op, url, outcome) ==
    /\ backoff # <<>>
    /\ attempt' = [op |-> op, url |-> url,
                   in_backoff |-> CheckRelayBackoff(backoff, url, now).some]
    /\ backoff_op' = BackoffOp(outcome, url)
    /\ backoff_status' = {}
    /\ UNCHANGED <<backoff, now>>
    /\ UNCHANGED notBackoffVars

\* time passes
BackoffTick ==
    /\ backoff # <<>>
    /\ now < MaxNow
    /\ now' = now + 1
    /\ backoff_op' = BackoffOp("tick", <<>>)
    /\ backoff_status' = {}
    /\ attempt' = NoAttempt
    /\ UNCHANGED backoff
    /\ UNCHANGED notBackoffVars

RelayOperations == {"fetch", "feed", "dm", "publish"}

BackoffNext ==
    \/ \E url \in BackoffUrls : ConnectionFailureRecorded(url)
    \/ \E url \in BackoffUrls, outcome \in {"connected", "failed", "timeout"} :
           TestRelayConnection(url, outcome)
    \/ \E relay_url_set \in SUBSET BackoffUrls : GetRelayBackoffStatus(relay_url_set)
    \/ \E op \in RelayOperations, url \in BackoffUrls,
          outcome \in {"attempt_connected", "attempt_failed"} :
           OperationConnects(op, url, outcome)
    \/ BackoffTick

-----------------------------------------------------------------------------
(* The opening handshake's accept check: compute_expected_accept and
   verify_accept (websocket/handshake.rs 27, 48-71). SHA-1 stands here as a
   digest with a small range, so that two keys may or may not share an accept
   value; base64 writes the digest in its alphabet. *)

WS_ACCEPT_MAGIC ==
    <<"2", "5", "8", "E", "A", "F", "A", "5", "-", "E", "9", "1", "4", "-",
      "4", "7", "D", "A", "-", "9", "5", "C", "A", "-",
      "C", "5", "A", "B", "0", "D", "C", "8", "5", "B", "1", "1">>

\* the characters that occur, in the order of their byte values
ByteOrder ==
    <<" ", "-", "0", "1", "2", "4", "5", "7", "8", "9", "A", "B", "C", "D", "E", "F",
      "Q", "g", "w">>

ByteOf(c) == CHOOSE i \in 1..Len(ByteOrder) : ByteOrder[i] = c

\* the number of digest values
DigestRange == 4

\* Sha1: update(bytes) after update(bytes), then finalize
RECURSIVE Sha1Update(_, _)
Sha1Update(h, bytes) ==
    IF bytes = <<>> THEN h
    ELSE Sha1Update((h * 3 + ByteOf(Head(bytes))) % DigestRange, Tail(bytes))

\* BASE64.encode
Base64Alphabet == <<"A", "Q", "g", "w">>
Base64Encode(digest) == <<Base64Alphabet[digest + 1], "=">>

\* compute_expected_accept
ComputeExpectedAccept(key) ==
    Base64Encode(Sha1Update(Sha1Update(0, key), WS_ACCEPT_MAGIC))

\* str::trim
Whitespace == {" ", "\t", "\n", "\r"}

RECURSIVE TrimStart(_)
TrimStart(str) ==
    IF str # <<>> /\ Head(str) \in Whitespace THEN TrimStart(Tail(str)) ELSE str

RECURSIVE TrimEnd(_)
TrimEnd(str) ==
    IF str # <<>> /\ str[Len(str)] \in Whitespace THEN TrimEnd(SubSeq(str, 1, Len(str) - 1))
    ELSE str

Trim(str) == TrimEnd(TrimStart(str))

\* any header is accepted
VerifyAcceptAny(header, key) == IF header.some THEN "Ok" ELSE "missing"

\* verify_accept
VerifyAccept(header, key) ==
    IF header.some /\ Trim(header.v) = ComputeExpectedAccept(key) THEN "Ok"
    ELSE IF header.some THEN "mismatch"
    ELSE "missing"

\* keys sent and headers received
Keys == {key \in SeqsUpTo({"A", "B"}, MaxKeyLen) : key # <<>>}

AcceptHeaders ==
    {None}
    \cup {Some(ComputeExpectedAccept(key)) : key \in Keys}
    \cup {Some(<<" ">> \o ComputeExpectedAccept(key) \o <<" ">>) : key \in Keys}
    \cup {Some(key) : key \in Keys}
    \cup {Some(<<>>)}

HandshakeIdle ==
    /\ key_base64 = <<>>
    /\ accept_header = None
    /\ verifyResult = "none"

HandshakeInit ==
    /\ key_base64 \in Keys
    /\ accept_header \in AcceptHeaders
    /\ verifyResult = "none"

\* verify_accept(accept_header, key_base64)
CallVerifyAccept ==
    /\ key_base64 # <<>>
    /\ verifyResult = "none"
    /\ verifyResult' = VerifyAccept(accept_header, key_base64)
    /\ UNCHANGED <<key_base64, accept_header>>
    /\ UNCHANGED notHandshakeVars

HandshakeNext == CallVerifyAccept

-----------------------------------------------------------------------------
(* The opening handshake over the byte stream: parse_101_response and
   find_header_end (websocket/handshake.rs 85-143). Bytes are numbers 0..255;
   text is a sequence of characters. *)

\* the printable ASCII characters, from byte 32 on (byte 96 by its name)
Ascii ==
    <<" ", "!", "\"", "#", "$", "%", "&", "'", "(", ")", "*", "+", ",", "-", ".", "/",
      "0", "1", "2", "3", "4", "5", "6", "7", "8", "9", ":", ";", "<", "=", ">", "?",
      "@", "A", "B", "C", "D", "E", "F", "G", "H", "I", "J", "K", "L", "M", "N", "O",
      "P", "Q", "R", "S", "T", "U", "V", "W", "X", "Y", "Z", "[", "\\", "]", "^", "_",
      "grave", "a", "b", "c", "d", "e", "f", "g", "h", "i", "j", "k", "l", "m", "n", "o",
      "p", "q", "r", "s", "t", "u", "v", "w", "x", "y", "z", "{", "|", "}", "~">>

CR == 13
LF == 10
FirstPrintable == 32
FirstNonAscii == 128

\* str::as_bytes of one character
AsByte(c) ==
    IF c = "\r" THEN CR
    ELSE IF c = "\n" THEN LF
    ELSE FirstPrintable - 1 + (CHOOSE i \in 1..Len(Ascii) : Ascii[i] = c)

AsBytes(str) == [i \in 1..Len(str) |-> AsByte(str[i])]

\* the character of an ASCII byte
AsChar(b) ==
    IF b = CR THEN "\r"
    ELSE IF b = LF THEN "\n"
    ELSE Ascii[b - FirstPrintable + 1]

\* std::str::from_utf8: Err on a byte that is no ASCII character and starts no
\* valid sequence
FromUtf8(bytes) ==
    IF \E i \in 1..Len(bytes) : bytes[i] >= FirstNonAscii THEN None
    ELSE Some([i \in 1..Len(bytes) |-> AsChar(bytes[i])])

\* find_header_end: the offset of the first CR LF CR LF, or -1 for None
FindHeaderEnd(buf) ==
    LET At4(i) == /\ buf[i + 1] = CR /\ buf[i + 2] = LF
                  /\ buf[i + 3] = CR /\ buf[i + 4] = LF
        found == {i \in 0..(Len(buf) - 4) : At4(i)}
    IN  IF Len(buf) < 4 \/ found = {} THEN -1
        ELSE CHOOSE i \in found : \A j \in found : i <= j

\* str::find of one character: its offset, or -1
FindChar(str, c) ==
    LET found == {i \in 1..Len(str) : str[i] = c}
    IN  IF found = {} THEN -1 ELSE (CHOOSE i \in found : \A j \in found : i <= j) - 1

\* str::split("\r\n")
RECURSIVE SplitCrlf(_, _, _)
SplitCrlf(str, cur, acc) ==
    IF str = <<>> THEN Append(acc, cur)
    ELSE IF Len(str) >= 2 /\ str[1] = "\r" /\ str[2] = "\n"
    THEN SplitCrlf(SubSeq(str, 3, Len(str)), <<>>, Append(acc, cur))
    ELSE SplitCrlf(Tail(str), Append(cur, Head(str)), acc)

\* status_line.splitn(3, ' ').get(1)
StatusPart(status_line) ==
    LET first == FindChar(status_line, " ")
        rest == SubSeq(status_line, first + 2, Len(status_line))
        second == FindChar(rest, " ")
    IN  IF first < 0 THEN None
        ELSE IF second < 0 THEN Some(rest)
        ELSE Some(SubSeq(rest, 1, second))

Digits == <<"0", "1", "2", "3", "4", "5", "6", "7", "8", "9">>
IsDigit(c) == \E d \in 1..Len(Digits) : Digits[d] = c
DigitValue(c) == (CHOOSE d \in 1..Len(Digits) : Digits[d] = c) - 1
U16Max == 65535

RECURSIVE DecimalValue(_, _)
DecimalValue(str, acc) ==
    IF str = <<>> THEN acc
    ELSE DecimalValue(Tail(str), Min(acc * 10 + DigitValue(Head(str)), U16Max + 1))

\* str::parse::<u16>().ok(), then unwrap_or(0) of the whole chain
ParseStatus(part) ==
    IF ~part.some THEN 0
    ELSE LET digits == IF part.v # <<>> /\ Head(part.v) = "+" THEN Tail(part.v)
                       ELSE part.v
         IN  IF digits = <<>> \/ \E i \in 1..Len(digits) : ~IsDigit(digits[i]) THEN 0
             ELSE IF DecimalValue(digits, 0) > U16Max THEN 0
             ELSE DecimalValue(digits, 0)

\* str::eq_ignore_ascii_case
EqIgnoreAsciiCase(s, t) == ToLowercase(s) = ToLowercase(t)

HeaderSecWebSocketAccept ==
    <<"S", "e", "c", "-", "W", "e", "b", "S", "o", "c", "k", "e", "t", "-",
      "A", "c", "c", "e", "p", "t">>

\* the header loop: the last Sec-WebSocket-Accept line before an empty line
RECURSIVE AcceptOfLines(_, _)
AcceptOfLines(lines, accept) ==
    IF lines = <<>> \/ Head(lines) = <<>> THEN accept
    ELSE LET line == Head(lines)
             colon == FindChar(line, ":")
             name == Trim(SubSeq(line, 1, colon))
             value == Trim(SubSeq(line, colon + 2, Len(line)))
         IN  IF colon >= 0 /\ EqIgnoreAsciiCase(name, HeaderSecWebSocketAccept)
             THEN AcceptOfLines(Tail(lines), Some(value))
             ELSE AcceptOfLines(Tail(lines), accept)

\* Option<io::Result<HandshakeResponse>>
HandshakeIncomplete ==
    [complete |-> FALSE, ok |-> FALSE, status |-> 0, accept |-> None, body_offset |-> 0]
HandshakeParseErr ==
    [complete |-> TRUE, ok |-> FALSE, status |-> 0, accept |-> None, body_offset |-> 0]
HandshakeResponse(status, accept, body_offset) ==
    [complete |-> TRUE, ok |-> TRUE, status |-> status, accept |-> accept,
     body_offset |-> body_offset]

\* parse_101_response
Parse101Response(buf) ==
    LET crlf2_pos == FindHeaderEnd(buf)
        header_str == FromUtf8(SubSeq(buf, 1, crlf2_pos))
        lines == SplitCrlf(header_str.v, <<>>, <<>>)
    IN  IF crlf2_pos < 0 THEN HandshakeIncomplete
        ELSE IF ~header_str.some THEN HandshakeParseErr
        ELSE HandshakeResponse(ParseStatus(StatusPart(Head(lines))),
                               AcceptOfLines(Tail(lines), None), crlf2_pos + 4)

-----------------------------------------------------------------------------
(* The frame codec, websocket/frame.rs: encode_frame and FrameParser as the
   connection uses them (connection.rs 28, 60, 89, 159). RFC 6455 frames: FIN
   and opcode, mask bit and 7-bit length, 16-bit or 64-bit extended length,
   mask key, payload. *)

OP_TEXT == 1
OP_BINARY == 2
OP_CLOSE == 8
OP_PING == 9
OP_PONG == 10

Opcodes == {OP_TEXT, OP_BINARY, OP_CLOSE, OP_PING, OP_PONG}

FinBit == 128        \* also the mask bit of the second byte
Len16 == 126         \* 7-bit length that announces a 16-bit length
Len64 == 127         \* 7-bit length that announces a 64-bit length
ByteRange == 256
MaskKeyLen == 4

\* a ^ b on bytes
RECURSIVE BitXor(_, _)
BitXor(a, b) ==
    IF a = 0 THEN b
    ELSE IF b = 0 THEN a
    ELSE ((a + b) % 2) + 2 * BitXor(a \div 2, b \div 2)

XorTable == [a \in 0..(ByteRange - 1) |-> [b \in 0..(ByteRange - 1) |-> BitXor(a, b)]]

\* n as `width` bytes, most significant first
RECURSIVE BigEndian(_, _)
BigEndian(n, width) ==
    IF width = 0 THEN <<>>
    ELSE Append(BigEndian(n \div ByteRange, width - 1), n % ByteRange)

\* the number that bytes, most significant first, stand for
RECURSIVE FromBigEndian(_)
FromBigEndian(bytes) ==
    IF bytes = <<>> THEN 0
    ELSE FromBigEndian(SubSeq(bytes, 1, Len(bytes) - 1)) * ByteRange + bytes[Len(bytes)]

\* the payload with the mask key applied cyclically (its own inverse)
ApplyMask(payload, mask_key) ==
    [i \in 1..Len(payload) |->
        XorTable[payload[i]][mask_key[((i - 1) % MaskKeyLen) + 1]]]

\* the length always written in the 7 bits of the second byte
EncodeLength7Bit(len) == <<FinBit + (len % Len16)>>

\* the payload length as the second byte and the extended length after it
EncodeLength(len) ==
    IF len < Len16 THEN <<FinBit + len>>
    ELSE IF len <= U16Max THEN <<FinBit + Len16>> \o BigEndian(len, 2)
    ELSE <<FinBit + Len64>> \o BigEndian(len, 8)

\* encode_frame: one final, masked frame
EncodeFrame(opcode, payload, mask_key) ==
    <<FinBit + opcode>> \o EncodeLength(Len(payload)) \o mask_key
        \o ApplyMask(payload, mask_key)

\* what FrameParser finds at the start of a buffer
NoFrame(state) ==
    [state |-> state, opcode |-> 0, fin |-> FALSE, payload |-> <<>>, used |-> 0]
DecodedFrame(opcode, fin, payload, used) ==
    [state |-> "frame", opcode |-> opcode, fin |-> fin, payload |-> payload,
     used |-> used]

\* FrameParser on the bytes it holds: "incomplete" until header and payload
\* are there, "error" on reserved bits, else the frame and the bytes it used
DecodeFrame(buf) ==
    IF Len(buf) < 2 THEN NoFrame("incomplete")
    ELSE LET fin == buf[1] >= FinBit
             rsv == (buf[1] \div 16) % 8
             opcode == buf[1] % 16
             masked == buf[2] >= FinBit
             len7 == buf[2] % FinBit
             ext == IF len7 = Len16 THEN 2 ELSE IF len7 = Len64 THEN 8 ELSE 0
             len == IF ext = 0 THEN len7 ELSE FromBigEndian(SubSeq(buf, 3, 2 + ext))
             key_at == 2 + ext
             data_at == key_at + (IF masked THEN MaskKeyLen ELSE 0)
             data == SubSeq(buf, data_at + 1, data_at + len)
         IN  IF rsv # 0 THEN NoFrame("error")
             ELSE IF Len(buf) < 2 + ext THEN NoFrame("incomplete")
             ELSE IF Len(buf) < data_at + len THEN NoFrame("incomplete")
             ELSE DecodedFrame(opcode, fin,
                               IF masked
                               THEN ApplyMask(data, SubSeq(buf, key_at + 1, key_at + MaskKeyLen))
                               ELSE data,
                               data_at + len)

\* frame round trips: a payload of `len` bytes, a mask key, an opcode
SamplePayload(len, seed) == [i \in 1..len |-> (i * 7 + seed) % ByteRange]

MaskKeys == [1..MaskKeyLen -> {0, 165}]

\* the lengths around each change of the length encoding
BoundaryLengths == {0, Len16 - 1, Len16, U16Max, U16Max + 1}
SmallLengths == {len \in BoundaryLengths : len <= Len16} \cup {1, Len64}

FrameInput(opcode, len, seed, mask_key) ==
    [opcode |-> opcode, len |-> len, seed |-> seed, mask_key |-> mask_key]

FrameIdle ==
    /\ codec_in = FrameInput(0, 0, 0, <<>>)
    /\ codec_wire = <<>>
    /\ codec_out = NoFrame("none")

\* the small payloads with every mask key, the large ones with one
FrameInit ==
    /\ codec_in \in
           {FrameInput(opcode, len, seed, mask_key) :
                opcode \in Opcodes, len \in SmallLengths, seed \in 0..MaxSeed,
                mask_key \in MaskKeys}
           \cup {FrameInput(opcode, len, 0, <<165, 0, 255, 90>>) :
                opcode \in Opcodes, len \in BoundaryLengths}
    /\ codec_wire = <<>>
    /\ codec_out = NoFrame("none")

\* encode_frame(opcode, payload, &mask_key, &mut out)
CallEncodeFrame ==
    /\ codec_in.mask_key # <<>>
    /\ codec_wire = <<>>
    /\ codec_wire' = EncodeFrame(codec_in.opcode,
                                 SamplePayload(codec_in.len, codec_in.seed),
                                 codec_in.mask_key)
    /\ UNCHANGED <<codec_in, codec_out>>
    /\ UNCHANGED notCodecVars

\* the parser is given the encoded bytes
CallDecodeFrame ==
    /\ codec_wire # <<>>
    /\ codec_out = NoFrame("none")
    /\ codec_out' = DecodeFrame(codec_wire)
    /\ UNCHANGED <<codec_in, codec_wire>>
    /\ UNCHANGED notCodecVars

FrameNext == CallEncodeFrame \/ CallDecodeFrame

-----------------------------------------------------------------------------
(* WebSocketClient::connect (websocket/client.rs 42-116),
   WebSocketConnection::new and run (websocket/connection.rs 41-101) *)

\* a frame a relay sends: opcode and payload, and whether a reserved bit is set
ServerFrame(opcode, payload, rsv) == [opcode |-> opcode, payload |-> payload, rsv |-> rsv]

\* its bytes on the wire (final, unmasked, 7-bit length)
ServerFrameBytes(frame) ==
    <<FinBit + (IF frame.rsv THEN 64 ELSE 0) + frame.opcode, Len(frame.payload)>>
        \o frame.payload

RECURSIVE ServerBytes(_)
ServerBytes(frames) ==
    IF frames = <<>> THEN <<>>
    ELSE ServerFrameBytes(Head(frames)) \o ServerBytes(Tail(frames))

CloseNormal == 1000
TextA == ServerFrame(OP_TEXT, AsBytes(<<"a">>), FALSE)

ServerFrames ==
    {TextA,
     ServerFrame(OP_CLOSE, BigEndian(CloseNormal, 2), FALSE),
     ServerFrame(OP_TEXT, <<>>, TRUE)}

\* a frame as the parser hands it over
WireFrame(opcode, payload) == [opcode |-> opcode, payload |-> payload]

\* the response a server sends to the opening handshake
CRLF == <<"\r", "\n">>
StatusLine(status_text) == <<"H", " ">> \o status_text
Status101 == <<"1", "0", "1">>
Status200 == <<"2", "0", "0">>
HeaderLine(name, value) == name \o <<":">> \o value
HeaderUpgrade == <<"U">>
InvalidUtf8Byte == 255

\* `server`: status text, Option of the accept value, how the header name is
\* written, and whether a header value holds a byte that is no UTF-8
ServerResponse(status_text, accept, lower_name, bad_utf8) ==
    [status_text |-> status_text, accept |-> accept, lower_name |-> lower_name,
     bad_utf8 |-> bad_utf8]

ResponseBytes(server) ==
    AsBytes(StatusLine(server.status_text) \o CRLF)
    \o (IF server.bad_utf8
        THEN AsBytes(HeaderLine(HeaderUpgrade, <<>>)) \o <<InvalidUtf8Byte>> \o AsBytes(CRLF)
        ELSE <<>>)
    \o (IF server.accept.some
        THEN AsBytes(HeaderLine(IF server.lower_name
                                THEN ToLowercase(HeaderSecWebSocketAccept)
                                ELSE HeaderSecWebSocketAccept,
                                server.accept.v) \o CRLF)
        ELSE <<>>)
    \o AsBytes(CRLF)

WsIdle ==
    /\ ws_pc = "idle"
    /\ ws_key = <<>>
    /\ ws_server = ServerResponse(<<>>, None, FALSE, FALSE)
    /\ ws_frames = <<>>
    /\ ws_wire = <<>>
    /\ ws_read_buf = <<>>
    /\ ws_connect = "none"
    /\ conn_read_buf = <<>>
    /\ ws_stop_after = 0
    /\ ws_dispatched = <<>>
    /\ ws_fed = <<>>
    /\ ws_failed = 0
    /\ ws_run = "none"
    /\ ws_exit = "none"

\* sequences of at most MaxFrames server frames
FrameStreams == SeqsUpTo(ServerFrames, MaxFrames)

\* the handshakes tried with one frame behind the response, and the frame
\* streams tried behind an accepted handshake
WsScenarios ==
    {[key |-> key, server |-> ServerResponse(status, accept, FALSE, FALSE),
      frames |-> <<TextA>>, stop_after |-> MaxFrames + 1] :
        key \in Keys, status \in {Status101, Status200},
        accept \in {None} \cup {Some(ComputeExpectedAccept(other)) : other \in Keys}}
    \cup
    {[key |-> key,
      server |-> ServerResponse(Status101, Some(ComputeExpectedAccept(key)), lower, bad),
      frames |-> <<>>, stop_after |-> MaxFrames + 1] :
        key \in Keys, lower \in BOOLEAN, bad \in BOOLEAN}
    \cup
    {[key |-> <<"A">>,
      server |-> ServerResponse(Status101, Some(ComputeExpectedAccept(<<"A">>)), FALSE, FALSE),
      frames |-> frames, stop_after |-> stop_after] :
        frames \in FrameStreams, stop_after \in 1..(MaxFrames + 1)}

\* connect is called: the URL, the TCP connection, TLS and the request are
\* still ahead (client.rs 43-81)
WsInit ==
    \E scenario \in WsScenarios :
        /\ ws_pc = "start"
        /\ ws_key = scenario.key
        /\ ws_server = scenario.server
        /\ ws_frames = scenario.frames
        /\ ws_wire = ResponseBytes(scenario.server) \o ServerBytes(scenario.frames)
        /\ ws_read_buf = <<>>
        /\ ws_connect = "none"
        /\ conn_read_buf = <<>>
        /\ ws_stop_after = scenario.stop_after
        /\ ws_dispatched = <<>>
        /\ ws_fed = <<>>
        /\ ws_failed = 0
        /\ ws_run = "none"
        /\ ws_exit = "none"

\* connect returns Err: no WebSocketConnection is made
WsConnectErr(error) ==
    /\ ws_pc' = "failed"
    /\ ws_connect' = error
    /\ conn_read_buf' = <<>>

\* client.rs 43-81: Url::parse, host, port, scheme, TcpStream::connect,
\* connect_tls, write_all and flush of the request
WsOpen ==
    /\ ws_pc = "start"
    /\ \E outcome \in {"ok", "InvalidInput", "IoError"} :
           IF outcome = "ok"
           THEN /\ ws_pc' = "handshake"
                /\ UNCHANGED <<ws_connect, conn_read_buf>>
           ELSE WsConnectErr(outcome)
    /\ UNCHANGED <<ws_key, ws_server, ws_frames, ws_wire, ws_read_buf, ws_stop_after,
                   ws_dispatched, ws_fed, ws_failed, ws_run, ws_exit>>
    /\ UNCHANGED notWsVars

\* what a read of the stream yields: Err, Ok(0), or the next n bytes
StreamReads == {[kind |-> "Err", n |-> 0], [kind |-> "Eof", n |-> 0]}
                   \cup {[kind |-> "Data", n |-> n] : n \in 1..Len(ws_wire)}

\* the bytes behind the header are dropped
LeftoverDropped(read_buf, body_offset) == <<>>

\* &read_buf[body_offset..] (client.rs 111)
Leftover(read_buf, body_offset) == SubSeq(read_buf, body_offset + 1, Len(read_buf))

\* every complete response is accepted
AfterResponseAny(response, key) == "Ok"

\* client.rs 96-106 for a complete response
AfterResponse(response, key) ==
    IF ~response.ok THEN "InvalidData"
    ELSE IF response.status # 101 THEN "BadStatus"
    ELSE VerifyAccept(response.accept, key)

\* one round of the read loop (client.rs 85-108), and what follows the break
\* (client.rs 111-115, connection.rs 41-51)
WsHandshakeRead ==
    /\ ws_pc = "handshake"
    /\ \E read \in StreamReads :
           LET buf == ws_read_buf \o SubSeq(ws_wire, 1, read.n)
               response == Parse101Response(buf)
               verdict == AfterResponse(response, ws_key)
           IN  IF read.kind = "Err"
               THEN WsConnectErr("IoError") /\ UNCHANGED <<ws_wire, ws_read_buf>>
               ELSE IF read.kind = "Eof"
               THEN WsConnectErr("UnexpectedEof") /\ UNCHANGED <<ws_wire, ws_read_buf>>
               ELSE /\ ws_wire' = SubSeq(ws_wire, read.n + 1, Len(ws_wire))
                    /\ ws_read_buf' = buf
                    /\ IF ~response.complete
                       THEN UNCHANGED <<ws_pc, ws_connect, conn_read_buf>>
                       ELSE IF verdict # "Ok"
                       THEN WsConnectErr(verdict)
                       ELSE /\ ws_pc' = "connected"
                            /\ ws_connect' = "Ok"
                            /\ conn_read_buf' = Leftover(buf, response.body_offset)
    /\ UNCHANGED <<ws_key, ws_server, ws_frames, ws_stop_after, ws_dispatched, ws_fed,
                   ws_failed, ws_run, ws_exit>>
    /\ UNCHANGED notWsVars

\* FrameParser::receive: every complete frame at the front of the buffer is
\* handed over and consumed; the bytes of an incomplete frame stay
RECURSIVE ReceiveFrom(_, _)
ReceiveFrom(buf, frames) ==
    LET decoded == DecodeFrame(buf) IN
    IF decoded.state = "error" THEN [err |-> TRUE, frames |-> frames, rest |-> buf]
    ELSE IF decoded.state = "incomplete"
    THEN [err |-> FALSE, frames |-> frames, rest |-> buf]
    ELSE ReceiveFrom(SubSeq(buf, decoded.used + 1, Len(buf)),
                     Append(frames, WireFrame(decoded.opcode, decoded.payload)))

\* a parser that forgets the bytes of an incomplete frame between two calls
FrameParserReceiveNoResume(buf) == [ReceiveFrom(buf, <<>>) EXCEPT !.rest = <<>>]

FrameParserReceive(buf) == ReceiveFrom(buf, <<>>)

\* a callback of WebSocketHandler as the adapter makes it: for close, `code`
\* is the status code (or -1 for None) and `data` the reason
HandlerCall(callback, code, data) == [callback |-> callback, code |-> code, data |-> data]

\* FrameToHandlerAdapter::frame (connection.rs 171-192)
AdapterFrame(frame) ==
    CASE frame.opcode = OP_TEXT -> <<HandlerCall("text_frame", -1, frame.payload)>>
      [] frame.opcode = OP_BINARY -> <<HandlerCall("binary_frame", -1, frame.payload)>>
      [] frame.opcode = OP_CLOSE ->
             IF Len(frame.payload) >= 2
             THEN LET reason == SubSeq(frame.payload, 3, Len(frame.payload)) IN
                  <<HandlerCall("close", FromBigEndian(SubSeq(frame.payload, 1, 2)),
                                IF FromUtf8(reason).some THEN reason ELSE <<>>)>>
             ELSE <<HandlerCall("close", -1, <<>>)>>
      [] frame.opcode = OP_PING -> <<HandlerCall("ping", -1, frame.payload)>>
      [] frame.opcode = OP_PONG -> <<HandlerCall("pong", -1, frame.payload)>>
      [] OTHER -> <<>>

RECURSIVE AdapterFrames(_)
AdapterFrames(frames) ==
    IF frames = <<>> THEN <<>>
    ELSE AdapterFrame(Head(frames)) \o AdapterFrames(Tail(frames))

\* handler.should_stop(): this handler is done once it has had ws_stop_after
\* callbacks
ShouldStop(calls) == Len(calls) >= ws_stop_after

\* run returns
WsRunReturn(result, exit) ==
    /\ ws_pc' = "returned"
    /\ ws_run' = result
    /\ ws_exit' = exit

\* frame_parser.receive(&mut self.read_buf, &mut adapter) and what run does
\* with its result (connection.rs 60-68, 89-99)
WsRunReceive(buf, error_exit, stop_exit) ==
    LET received == FrameParserReceive(buf)
        calls == ws_dispatched \o AdapterFrames(received.frames)
    IN  /\ ws_dispatched' = calls
        /\ conn_read_buf' = received.rest
        /\ IF received.err
           THEN /\ ws_failed' = ws_failed + 1
                /\ WsRunReturn("Err", error_exit)
           ELSE /\ ws_failed' = ws_failed
                /\ IF ShouldStop(calls)
                   THEN WsRunReturn("Ok", stop_exit)
                   ELSE /\ ws_pc' = "loop"
                        /\ UNCHANGED <<ws_run, ws_exit>>

\* run, up to the read loop (connection.rs 55-70)
WsRunLeftover ==
    /\ ws_pc = "connected"
    /\ IF conn_read_buf # <<>>
       THEN /\ ws_fed' = ws_fed \o conn_read_buf
            /\ WsRunReceive(conn_read_buf, "leftover_error", "leftover_stop")
       ELSE /\ ws_pc' = "loop"
            /\ UNCHANGED <<ws_fed, ws_dispatched, conn_read_buf, ws_failed, ws_run, ws_exit>>
    /\ UNCHANGED <<ws_key, ws_server, ws_frames, ws_wire, ws_read_buf, ws_connect,
                   ws_stop_after>>
    /\ UNCHANGED notWsVars

\* one round of the read loop (connection.rs 71-100)
WsRunRead ==
    /\ ws_pc = "loop"
    /\ \E read \in StreamReads :
           IF read.kind = "Eof"
           THEN /\ WsRunReturn("Ok", "eof")
                /\ UNCHANGED <<ws_wire, ws_fed, ws_dispatched, conn_read_buf, ws_failed>>
           ELSE IF read.kind = "Err"
           THEN /\ WsRunReturn("Err", "read_error")
                /\ ws_failed' = ws_failed + 1
                /\ UNCHANGED <<ws_wire, ws_fed, ws_dispatched, conn_read_buf>>
           ELSE /\ ws_wire' = SubSeq(ws_wire, read.n + 1, Len(ws_wire))
                /\ ws_fed' = ws_fed \o SubSeq(ws_wire, 1, read.n)
                /\ WsRunReceive(conn_read_buf \o SubSeq(ws_wire, 1, read.n),
                                "parse_error", "stop")
    /\ UNCHANGED <<ws_key, ws_server, ws_frames, ws_read_buf, ws_connect, ws_stop_after>>
    /\ UNCHANGED notWsVars

WsNext == WsOpen \/ WsHandshakeRead \/ WsRunLeftover \/ WsRunRead

-----------------------------------------------------------------------------
(* WebSocketConnection::send_text, send_binary, send_ping, send_pong,
   send_close and send_frame (websocket/connection.rs 103-163) *)

\* the largest payload of a control frame (connection.rs 117, 129, 146)
ControlPayloadCap == 125

\* mask keys rand fills in
SendMasks == {<<0, 0, 0, 0>>, <<165, 0, 255, 90>>}

\* what the stream does with write_all and flush
IoOutcomes == {"ok", "write_err", "flush_err"}

DataLengths == {0, Len16}
ControlLengths == {0, ControlPayloadCap, ControlPayloadCap + 1}
ReasonLengths == {0} \cup (ControlPayloadCap - 2)..(ControlPayloadCap + 1)
CloseCodes == {None, Some(CloseNormal)}

\* reason.as_bytes() for a reason of n bytes
ReasonBytes(n) == [i \in 1..n |-> AsByte("a")]

\* the payload send_close builds (connection.rs 141-145)
ClosePayload(code, reason) ==
    (IF code.some THEN BigEndian(code.v, 2) ELSE <<>>) \o reason

\* a control payload of any length is let through
TooLongNever(payload) == FALSE

\* payload.len() > 125 (connection.rs 117, 129, 146)
TooLong(payload) == Len(payload) > ControlPayloadCap

SendCall(op, opcode, payload) == [op |-> op, opcode |-> opcode, payload |-> payload]

SendIdle ==
    /\ send_pc = "idle"
    /\ send_count = 0
    /\ send_call = SendCall("none", 0, <<>>)
    /\ send_written = <<>>
    /\ send_flushed = FALSE
    /\ send_result = "none"
    /\ send_failed = 0

\* a connection on which nothing has been sent
SendInit ==
    /\ send_pc = "open"
    /\ send_count = 0
    /\ send_call = SendCall("none", 0, <<>>)
    /\ send_written = <<>>
    /\ send_flushed = FALSE
    /\ send_result = "none"
    /\ send_failed = 0

\* a send operation is called
SendBegin(op, opcode, payload) ==
    /\ send_pc = "open"
    /\ send_count < MaxSends
    /\ send_count' = send_count + 1
    /\ send_call' = SendCall(op, opcode, payload)
    /\ UNCHANGED send_pc

\* return Err(io::Error::new(io::ErrorKind::InvalidInput, ..))
SendInvalidInput ==
    /\ send_written' = <<>>
    /\ send_flushed' = FALSE
    /\ send_result' = "InvalidInput"
    /\ UNCHANGED send_failed

\* send_frame (connection.rs 155-163): a write error leaves none or some of
\* the frame on the stream; send_frame has no handler and calls none
SendFrame(opcode, payload) ==
    \E mask_key \in SendMasks, io \in IoOutcomes :
        LET out == EncodeFrame(opcode, payload, mask_key) IN
        /\ \/ /\ io = "ok"
              /\ send_written' = out
           \/ /\ io = "write_err"
              /\ \E n \in {0, Len(out) \div 2} : send_written' = SubSeq(out, 1, n)
           \/ /\ io = "flush_err"
              /\ send_written' = out
        /\ send_flushed' = (io = "ok")
        /\ send_result' = IF io = "ok" THEN "Ok" ELSE "IoError"
        /\ UNCHANGED send_failed

SendText ==
    /\ \E len \in DataLengths :
           /\ SendBegin("send_text", OP_TEXT, SamplePayload(len, 0))
           /\ SendFrame(OP_TEXT, SamplePayload(len, 0))
    /\ UNCHANGED notSendVars

SendBinary ==
    /\ \E len \in DataLengths :
           /\ SendBegin("send_binary", OP_BINARY, SamplePayload(len, 0))
           /\ SendFrame(OP_BINARY, SamplePayload(len, 0))
    /\ UNCHANGED notSendVars

SendPing ==
    /\ \E len \in ControlLengths :
           /\ SendBegin("send_ping", OP_PING, SamplePayload(len, 0))
           /\ IF TooLong(SamplePayload(len, 0))
              THEN SendInvalidInput
              ELSE SendFrame(OP_PING, SamplePayload(len, 0))
    /\ UNCHANGED notSendVars

SendPong ==
    /\ \E len \in ControlLengths :
           /\ SendBegin("send_pong", OP_PONG, SamplePayload(len, 0))
           /\ IF TooLong(SamplePayload(len, 0))
              THEN SendInvalidInput
              ELSE SendFrame(OP_PONG, SamplePayload(len, 0))
    /\ UNCHANGED notSendVars

SendClose ==
    /\ \E code \in CloseCodes, len \in ReasonLengths :
           LET payload == ClosePayload(code, ReasonBytes(len)) IN
           /\ SendBegin("send_close", OP_CLOSE, payload)
           /\ IF TooLong(payload)
              THEN SendInvalidInput
              ELSE SendFrame(OP_CLOSE, payload)
    /\ UNCHANGED notSendVars

SendNext == SendText \/ SendBinary \/ SendPing \/ SendPong \/ SendClose

-----------------------------------------------------------------------------
(* JSON as text: nostr::event_to_json and escape_json_string (nostr.rs
   365-421, 528-543), and the push parser of json.rs, which turns a text into
   the parse events above (nostr.rs 338-345) *)

\* escape_json_string for one character (nostr.rs 532-539)
EscapeChar(c) ==
    CASE c = "\"" -> <<"\\", "\"">>
      [] c = "\\" -> <<"\\", "\\">>
      [] c = "\n" -> <<"\\", "n">>
      [] c = "\r" -> <<"\\", "r">>
      [] c = "\t" -> <<"\\", "t">>
      [] OTHER -> <<c>>

\* escape_json_string (nostr.rs 528-543)
RECURSIVE EscapeJsonString(_)
EscapeJsonString(input) ==
    IF input = <<>> THEN <<>>
    ELSE EscapeChar(Head(input)) \o EscapeJsonString(Tail(input))

\* u64::to_string
RECURSIVE DecimalString(_)
DecimalString(n) ==
    IF n < 10 THEN <<Digits[n + 1]>>
    ELSE DecimalString(n \div 10) \o <<Digits[(n % 10) + 1]>>

\* one tag: its items quoted and separated by commas (nostr.rs 393-400)
RECURSIVE TagItemsToJson(_)
TagItemsToJson(tag) ==
    IF tag = <<>> THEN <<>>
    ELSE <<"\"">> \o EscapeJsonString(Head(tag)) \o <<"\"">>
             \o (IF Len(tag) > 1 THEN <<",">> ELSE <<>>) \o TagItemsToJson(Tail(tag))

\* the tags, each in brackets, separated by commas (nostr.rs 390-406)
RECURSIVE TagsToJson(_)
TagsToJson(tags) ==
    IF tags = <<>> THEN <<>>
    ELSE <<"[">> \o TagItemsToJson(Head(tags)) \o <<"]">>
             \o (IF Len(tags) > 1 THEN <<",">> ELSE <<>>) \o TagsToJson(Tail(tags))

\* nostr::event_to_json (nostr.rs 365-421)
EventToJson(event) ==
    <<"{", "\n", " ", " ", "\"", "i", "d", "\"", ":", " ", "\"">> \o EscapeJsonString(event.id)
        \o <<"\"", ",", "\n", " ", " ", "\"", "p", "u", "b", "k", "e", "y", "\"", ":", " ", "\"">> \o EscapeJsonString(event.pubkey)
        \o <<"\"", ",", "\n", " ", " ", "\"", "c", "r", "e", "a", "t", "e", "d", "_", "a", "t", "\"", ":", " ">> \o DecimalString(event.created_at)
        \o <<",", "\n", " ", " ", "\"", "k", "i", "n", "d", "\"", ":", " ">> \o DecimalString(event.kind)
        \o <<",", "\n", " ", " ", "\"", "t", "a", "g", "s", "\"", ":", " ", "[">> \o TagsToJson(event.tags)
        \o <<"]", ",", "\n", " ", " ", "\"", "c", "o", "n", "t", "e", "n", "t", "\"", ":", " ", "\"">> \o EscapeJsonString(event.content)
        \o <<"\"", ",", "\n", " ", " ", "\"", "s", "i", "g", "\"", ":", " ", "\"">> \o EscapeJsonString(event.sig)
        \o <<"\"", "\n", "}">>

\* the field names EventHandler tells apart (nostr.rs 224-257)
KeyAtom(str) ==
    CASE str = <<"i", "d">> -> "id"
      [] str = <<"p", "u", "b", "k", "e", "y">> -> "pubkey"
      [] str = <<"c", "r", "e", "a", "t", "e", "d", "_", "a", "t">> -> "created_at"
      [] str = <<"k", "i", "n", "d">> -> "kind"
      [] str = <<"t", "a", "g", "s">> -> "tags"
      [] str = <<"c", "o", "n", "t", "e", "n", "t">> -> "content"
      [] str = <<"s", "i", "g">> -> "sig"
      [] OTHER -> "other"

\* the character an escape stands for (the escapes escape_json_string writes,
\* and the solidus)
Unescaped(c) ==
    CASE c = "n" -> "\n"
      [] c = "r" -> "\r"
      [] c = "t" -> "\t"
      [] OTHER -> c

SimpleEscapes == {"\"", "\\", "/", "n", "r", "t"}
ControlChars == {"\n", "\r", "\t"}

\* a string, from behind its opening quote to its closing quote; a control
\* character must be escaped
RECURSIVE JsonStringFrom(_, _, _)
JsonStringFrom(text, i, acc) ==
    IF i > Len(text) THEN [ok |-> FALSE, str |-> acc, next |-> i]
    ELSE IF text[i] = "\"" THEN [ok |-> TRUE, str |-> acc, next |-> i + 1]
    ELSE IF text[i] = "\\"
    THEN IF i + 1 <= Len(text) /\ text[i + 1] \in SimpleEscapes
         THEN JsonStringFrom(text, i + 2, Append(acc, Unescaped(text[i + 1])))
         ELSE [ok |-> FALSE, str |-> acc, next |-> i]
    ELSE IF text[i] \in ControlChars THEN [ok |-> FALSE, str |-> acc, next |-> i]
    ELSE JsonStringFrom(text, i + 1, Append(acc, text[i]))

\* the digits of a number from position i on
RECURSIVE JsonDigitsFrom(_, _, _)
JsonDigitsFrom(text, i, acc) ==
    IF i <= Len(text) /\ IsDigit(text[i])
    THEN JsonDigitsFrom(text, i + 1, acc * 10 + DigitValue(text[i]))
    ELSE [value |-> acc, next |-> i]

JsonWhitespace == {" ", "\n", "\r", "\t"}

JsonLiterals ==
    {[text |-> <<"t", "r", "u", "e">>, tok |-> ValueTrue], [text |-> <<"f", "a", "l", "s", "e">>, tok |-> ValueFalse],
     [text |-> <<"n", "u", "l", "l">>, tok |-> ValueNull]}

\* the parser at position i: `stack` holds the open containers, `key` says
\* that the next string is a field name
RECURSIVE JsonEventsFrom(_, _, _, _, _)
JsonEventsFrom(text, i, stack, key, toks) ==
    IF i > Len(text)
    THEN IF stack = <<>> /\ toks # <<>> THEN toks ELSE Append(toks, SyntaxError)
    ELSE LET c == text[i]
             top == IF stack = <<>> THEN "" ELSE stack[Len(stack)]
             pop == SubSeq(stack, 1, Len(stack) - 1)
         IN
         CASE c \in JsonWhitespace -> JsonEventsFrom(text, i + 1, stack, key, toks)
           [] c = "{" ->
                  JsonEventsFrom(text, i + 1, Append(stack, "o"), TRUE,
                                 Append(toks, StartObject))
           [] c = "[" ->
                  JsonEventsFrom(text, i + 1, Append(stack, "a"), FALSE,
                                 Append(toks, StartArray))
           [] c = "}" ->
                  IF top = "o"
                  THEN JsonEventsFrom(text, i + 1, pop, FALSE, Append(toks, EndObject))
                  ELSE Append(toks, SyntaxError)
           [] c = "]" ->
                  IF top = "a"
                  THEN JsonEventsFrom(text, i + 1, pop, FALSE, Append(toks, EndArray))
                  ELSE Append(toks, SyntaxError)
           [] c = "," ->
                  IF stack = <<>> THEN Append(toks, SyntaxError)
                  ELSE JsonEventsFrom(text, i + 1, stack, top = "o", toks)
           [] c = ":" ->
                  IF top = "o" THEN JsonEventsFrom(text, i + 1, stack, FALSE, toks)
                  ELSE Append(toks, SyntaxError)
           [] c = "\"" ->
                  LET string == JsonStringFrom(text, i + 1, <<>>) IN
                  IF ~string.ok THEN Append(toks, SyntaxError)
                  ELSE JsonEventsFrom(text, string.next, stack, FALSE,
                                      Append(toks, IF key THEN FieldName(KeyAtom(string.str))
                                                   ELSE ValueString(string.str)))
           [] IsDigit(c) ->
                  LET number == JsonDigitsFrom(text, i, 0) IN
                  JsonEventsFrom(text, number.next, stack, FALSE,
                                 Append(toks, ValueInt(number.value)))
           [] c = "-" /\ i < Len(text) /\ IsDigit(text[i + 1]) ->
                  LET number == JsonDigitsFrom(text, i + 1, 0) IN
                  JsonEventsFrom(text, number.next, stack, FALSE,
                                 Append(toks, ValueInt(0 - number.value)))
           [] \E lit \in JsonLiterals : Len(text) >= i + Len(lit.text) - 1
                                          /\ IsAt(text, lit.text, i) ->
                  LET lit == CHOOSE l \in JsonLiterals :
                                 Len(text) >= i + Len(l.text) - 1 /\ IsAt(text, l.text, i)
                  IN  JsonEventsFrom(text, i + Len(lit.text), stack, FALSE,
                                     Append(toks, lit.tok))
           [] OTHER -> Append(toks, SyntaxError)

\* parse_json_str: JsonParser::receive and close over the whole text
\* (nostr.rs 338-345)
ParseJsonStr(json_str) == JsonEventsFrom(json_str, 1, <<>>, FALSE, <<>>)

-----------------------------------------------------------------------------
(* The conversation file of one correspondent: messages_store::append_raw_event
   and lock_conversation (messages_store.rs 35-45, 306-357), called by the
   tasks of the DM stream and by send_dm *)

\* the kinds of nostr.rs 51 and 56
KIND_DM == 4
KIND_TEXT_NOTE == 1

\* the callers that may be inside append_raw_event at the same time
StoreThreads == {1, 2}

\* kind-4 events with two ids (one of them also in capitals) and content that
\* needs escaping, and a note
StoreEvents ==
    {NostrEvent(<<"a", "1">>, <<"p">>, 1, KIND_DM, <<>>, <<"x">>, <<"s">>),
     NostrEvent(<<"A", "1">>, <<"p">>, 1, KIND_DM, <<>>, <<"x">>, <<"s">>),
     NostrEvent(<<"b", "2">>, <<"p">>, 2, KIND_DM, <<<<<<"p">>, <<"q">>>>>>, <<"\"", "y">>, <<"s">>),
     NostrEvent(<<"c", "3">>, <<"p">>, 3, KIND_TEXT_NOTE, <<>>, <<"x">>, <<"s">>)}

\* the conversation file: whether it exists, and its text
FileAbsent == [exists |-> FALSE, contents |-> <<>>]
FileWith(contents) == [exists |-> TRUE, contents |-> contents]

\* what a finished call did (kept for the properties): the id, whether an
\* event of that id had been appended before, and the result
StoreLogged(id, present, result) == [id |-> id, present |-> present, result |-> result]

StoreIdle ==
    /\ store_pc = [t \in StoreThreads |-> "off"]
    /\ store_event = [t \in StoreThreads |-> NoEvent]
    /\ store_new_id = [t \in StoreThreads |-> <<>>]
    /\ store_contents = [t \in StoreThreads |-> FileAbsent]
    /\ store_result = [t \in StoreThreads |-> "none"]
    /\ store_lock = 0
    /\ store_file = FileAbsent
    /\ store_appended = <<>>
    /\ store_log = <<>>

\* no conversation file yet, nobody in append_raw_event
StoreInit ==
    /\ store_pc = [t \in StoreThreads |-> "idle"]
    /\ store_event = [t \in StoreThreads |-> NoEvent]
    /\ store_new_id = [t \in StoreThreads |-> <<>>]
    /\ store_contents = [t \in StoreThreads |-> FileAbsent]
    /\ store_result = [t \in StoreThreads |-> "none"]
    /\ store_lock = 0
    /\ store_file = FileAbsent
    /\ store_appended = <<>>
    /\ store_log = <<>>

\* format!("\"id\":\"{}\"", new_id) (messages_store.rs 329)
SearchPattern(new_id) == <<"\"", "i", "d", "\"", ":", "\"">> \o new_id \o <<"\"">>

\* contents.to_lowercase().contains(&search_pattern) (messages_store.rs 330)
IsDuplicate(contents, new_id) == Contains(ToLowercase(contents), SearchPattern(new_id))

\* str::ends_with for one character
EndsWith(str, c) == str # <<>> /\ str[Len(str)] = c

\* the text written over an existing file (messages_store.rs 333-349)
AppendedTo(contents, raw_event_json) ==
    LET trimmed == TrimEnd(contents) IN
    IF EndsWith(trimmed, "]")
    THEN LET out == SubSeq(trimmed, 1, Len(trimmed) - 1) IN
         out \o (IF EndsWith(TrimEnd(out), "}") THEN <<",">> ELSE <<>>)
             \o raw_event_json \o <<"]">>
    ELSE <<"[">> \o raw_event_json \o <<"]">>

\* format!("[{}]", raw_event_json) (messages_store.rs 352)
NewFile(raw_event_json) == <<"[">> \o raw_event_json \o <<"]">>

\* the ids, in lower case, of the events appended so far
AppendedIds == {ToLowercase(store_appended[i].id) : i \in 1..Len(store_appended)}

\* the call returns: the guard is dropped
StoreReturn(t, result) ==
    /\ store_pc' = [store_pc EXCEPT ![t] = "idle"]
    /\ store_result' = [store_result EXCEPT ![t] = result]
    /\ store_lock' = IF store_lock = t THEN 0 ELSE store_lock

\* append_raw_event is called with the text event_to_json made of an event:
\* the text is parsed and must be of kind 4 (messages_store.rs 313-319)
AppendCall(t) ==
    /\ store_pc[t] = "idle"
    /\ Len(store_log) + Cardinality({u \in StoreThreads : store_pc[u] # "idle"}) < MaxAppends
    /\ \E event \in StoreEvents :
           LET new_event == ParseEvent(ParseJsonStr(EventToJson(event))) IN
           /\ store_event' = [store_event EXCEPT ![t] = event]
           /\ IF ~new_event.ok \/ new_event.event.kind # KIND_DM
              THEN /\ StoreReturn(t, "Err")
                   /\ store_log' = Append(store_log, StoreLogged(event.id, FALSE, "Err"))
                   /\ UNCHANGED store_new_id
              ELSE /\ store_pc' = [store_pc EXCEPT ![t] = "lock"]
                   /\ store_new_id' = [store_new_id EXCEPT ![t] =
                                           ToLowercase(new_event.event.id)]
                   /\ UNCHANGED <<store_result, store_lock, store_log>>
    /\ UNCHANGED <<store_contents, store_file, store_appended>>
    /\ UNCHANGED notStoreVars

\* the mutex of the conversation is handed to whoever asks
LockFreeAlways(holder) == TRUE

\* Mutex::lock returns when nobody holds the mutex
LockFree(holder) == holder = 0

\* lock_conversation(&path) and lock.lock() (messages_store.rs 323-324): every
\* call for one conversation gets the same mutex
AppendLock(t) ==
    /\ store_pc[t] = "lock"
    /\ LockFree(store_lock)
    /\ store_lock' = t
    /\ store_pc' = [store_pc EXCEPT ![t] = "read"]
    /\ UNCHANGED <<store_event, store_new_id, store_contents, store_result, store_file,
                   store_appended, store_log>>
    /\ UNCHANGED notStoreVars

\* Path::exists and fs::read_to_string (messages_store.rs 326-327)
AppendRead(t) ==
    /\ store_pc[t] = "read"
    /\ \E read_ok \in BOOLEAN :
           IF store_file.exists /\ ~read_ok
           THEN /\ StoreReturn(t, "Err")
                /\ store_log' = Append(store_log,
                                       StoreLogged(store_new_id[t],
                                                   store_new_id[t] \in AppendedIds, "Err"))
                /\ UNCHANGED store_contents
           ELSE /\ read_ok
                /\ store_contents' = [store_contents EXCEPT ![t] = store_file]
                /\ store_pc' = [store_pc EXCEPT ![t] = "write"]
                /\ UNCHANGED <<store_result, store_lock, store_log>>
    /\ UNCHANGED <<store_event, store_new_id, store_file, store_appended>>
    /\ UNCHANGED notStoreVars

\* the duplicate check and the write (messages_store.rs 328-356); a write
\* that fails leaves the file as it was
AppendWrite(t) ==
    /\ store_pc[t] = "write"
    /\ LET raw_event_json == EventToJson(store_event[t])
           present == store_new_id[t] \in AppendedIds
           read == store_contents[t]
       IN  IF read.exists /\ IsDuplicate(read.contents, store_new_id[t])
           THEN /\ StoreReturn(t, "Ok(false)")
                /\ store_log' = Append(store_log,
                                       StoreLogged(store_new_id[t], present, "Ok(false)"))
                /\ UNCHANGED <<store_file, store_appended>>
           ELSE \E write_ok \in BOOLEAN :
                IF write_ok
                THEN /\ store_file' = FileWith(IF read.exists
                                                THEN AppendedTo(read.contents, raw_event_json)
                                                ELSE NewFile(raw_event_json))
                     /\ store_appended' = Append(store_appended, store_event[t])
                     /\ StoreReturn(t, "Ok(true)")
                     /\ store_log' = Append(store_log,
                                            StoreLogged(store_new_id[t], present, "Ok(true)"))
                ELSE /\ StoreReturn(t, "Err")
                     /\ store_log' = Append(store_log,
                                            StoreLogged(store_new_id[t], present, "Err"))
                     /\ UNCHANGED <<store_file, store_appended>>
    /\ UNCHANGED <<store_event, store_new_id, store_contents>>
    /\ UNCHANGED notStoreVars

StoreNext ==
    \/ \E t \in StoreThreads : AppendCall(t)
    \/ \E t \in StoreThreads : AppendLock(t)
    \/ \E t \in StoreThreads : AppendRead(t)
    \/ \E t \in StoreThreads : AppendWrite(t)

-----------------------------------------------------------------------------
(* An event written by event_to_json and read back by parse_event
   (nostr.rs 347-351, 365-421) *)

\* tag lists: none, one tag, the same tag twice, a tag with an empty string,
\* an empty tag alone and an empty tag between others
JsonTagLists ==
    {<<>>,
     <<<<<<"e">>, <<"x">>>>>>,
     <<<<<<"e">>, <<"x">>>>, <<<<"e">>, <<"x">>>>>>,
     <<<<<<"p">>, <<>>>>, <<<<"e">>>>>>,
     <<<<>>>>,
     <<<<<<"e">>>>, <<>>, <<<<"p">>>>>>}

\* contents with the characters escape_json_string escapes
JsonContents ==
    {<<>>, <<"h", "i">>, <<"\"">>, <<"\\", "n">>, <<"a", "\n", "\t", "b">>, <<"\r">>}

JsonEvents ==
    {NostrEvent(id, <<"p">>, created_at, kind, tags, content, <<"s">>) :
        id \in {<<"a">>, <<"0", "F">>}, created_at \in {0, 7, 120},
        kind \in {0, KIND_DM, 30023}, tags \in JsonTagLists, content \in JsonContents}

JsonIdle ==
    /\ json_pc = "off"
    /\ json_event = NoEvent
    /\ json_text = <<>>
    /\ json_parsed = EventErr

\* an event in memory (parsed or built earlier)
JsonInit ==
    /\ json_pc = "event"
    /\ json_event \in JsonEvents
    /\ json_text = <<>>
    /\ json_parsed = EventErr

\* event_to_json(&event)
JsonWrite ==
    /\ json_pc = "event"
    /\ json_text' = EventToJson(json_event)
    /\ json_pc' = "text"
    /\ UNCHANGED <<json_event, json_parsed>>
    /\ UNCHANGED notJsonVars

\* parse_event(&json)
JsonRead ==
    /\ json_pc = "text"
    /\ json_parsed' = ParseEvent(ParseJsonStr(json_text))
    /\ json_pc' = "parsed"
    /\ UNCHANGED <<json_event, json_text>>
    /\ UNCHANGED notJsonVars

JsonNext == JsonWrite \/ JsonRead

-----------------------------------------------------------------------------
(* Hexadecimal text: hex_to_bytes, hex_char_to_value and bytes_to_hex of
   crypto.rs (422-488) *)

\* hex_char_to_value (crypto.rs 451-472)
HexValues ==
    <<<<"0", 0>>, <<"1", 1>>, <<"2", 2>>, <<"3", 3>>, <<"4", 4>>, <<"5", 5>>, <<"6", 6>>,
      <<"7", 7>>, <<"8", 8>>, <<"9", 9>>, <<"a", 10>>, <<"A", 10>>, <<"b", 11>>, <<"B", 11>>,
      <<"c", 12>>, <<"C", 12>>, <<"d", 13>>, <<"D", 13>>, <<"e", 14>>, <<"E", 14>>,
      <<"f", 15>>, <<"F", 15>>>>

\* a reading of hex_char_to_value that knows no capital letters
HexCharToValueLowerOnly(c) ==
    IF \E k \in 1..Len(HexValues) : HexValues[k][1] = c /\ ToLowerChar(c) = c
    THEN Some(HexValues[CHOOSE k \in 1..Len(HexValues) : HexValues[k][1] = c][2])
    ELSE None

HexCharToValue(c) ==
    IF \E k \in 1..Len(HexValues) : HexValues[k][1] = c
    THEN Some(HexValues[CHOOSE k \in 1..Len(HexValues) : HexValues[k][1] = c][2])
    ELSE None

HexOk(bytes) == [ok |-> TRUE, bytes |-> bytes]
HexErr == [ok |-> FALSE, bytes |-> <<>>]

\* the loop of hex_to_bytes from index on (crypto.rs 431-446)
RECURSIVE HexToBytesFrom(_, _, _)
HexToBytesFrom(chars, index, bytes) ==
    IF index > Len(chars) THEN HexOk(bytes)
    ELSE LET high == HexCharToValue(chars[index])
             low == HexCharToValue(chars[index + 1])
         IN  IF ~high.some THEN HexErr
             ELSE IF ~low.some THEN HexErr
             ELSE HexToBytesFrom(chars, index + 2,
                                 Append(bytes, ((high.v * 16) + low.v) % 256))

\* hex_to_bytes (crypto.rs 422-449)
HexToBytes(hex) ==
    IF Len(hex) % 2 # 0 THEN HexErr
    ELSE HexToBytesFrom(hex, 1, <<>>)

\* the table of bytes_to_hex (crypto.rs 476-477)
HexChars == <<"0", "1", "2", "3", "4", "5", "6", "7", "8", "9", "a", "b", "c", "d", "e", "f">>

\* bytes_to_hex (crypto.rs 475-488)
RECURSIVE BytesToHex(_)
BytesToHex(bytes) ==
    IF bytes = <<>> THEN <<>>
    ELSE LET byte == Head(bytes)
             high == (byte \div 16) % 16
             low == byte % 16
         IN  <<HexChars[high + 1], HexChars[low + 1]>> \o BytesToHex(Tail(bytes))

\* characters of the texts tried: digits, letters in both cases, and
\* characters that are no hexadecimal digits
HexAlphabet == {"0", "9", "a", "f", "A", "F", "g", " "}
HexTexts == SeqsUpTo(HexAlphabet, MaxHexLen)

\* bytes tried: both nibbles zero, one nibble zero, the extremes
HexBytes == {0, 10, 16, 171, 255}
HexByteSeqs == SeqsUpTo(HexBytes, MaxHexLen)

HexIdle ==
    /\ hex_pc = "off"
    /\ hex_h = <<>>
    /\ hex_b = <<>>
    /\ hex_result = HexErr
    /\ hex_text = <<>>

\* a text to decode, or bytes to encode
HexInit ==
    /\ hex_pc \in {"text", "bytes"}
    /\ hex_h \in (IF hex_pc = "text" THEN HexTexts ELSE {<<>>})
    /\ hex_b \in (IF hex_pc = "bytes" THEN HexByteSeqs ELSE {<<>>})
    /\ hex_result = HexErr
    /\ hex_text = <<>>

\* hex_to_bytes(h)
HexDecode ==
    /\ hex_pc = "text"
    /\ hex_result' = HexToBytes(hex_h)
    /\ hex_pc' = "decoded"
    /\ UNCHANGED <<hex_h, hex_b, hex_text>>
    /\ UNCHANGED notHexVars

\* bytes_to_hex of what hex_to_bytes returned (crypto.rs 532-533)
HexEncodeBack ==
    /\ hex_pc = "decoded"
    /\ hex_result.ok
    /\ hex_text' = BytesToHex(hex_result.bytes)
    /\ hex_pc' = "back_to_text"
    /\ UNCHANGED <<hex_h, hex_b, hex_result>>
    /\ UNCHANGED notHexVars

\* bytes_to_hex(b)
HexEncode ==
    /\ hex_pc = "bytes"
    /\ hex_text' = BytesToHex(hex_b)
    /\ hex_pc' = "encoded"
    /\ UNCHANGED <<hex_h, hex_b, hex_result>>
    /\ UNCHANGED notHexVars

\* hex_to_bytes of what bytes_to_hex returned
HexDecodeBack ==
    /\ hex_pc = "encoded"
    /\ hex_result' = HexToBytes(hex_text)
    /\ hex_pc' = "back_to_bytes"
    /\ UNCHANGED <<hex_h, hex_b, hex_text>>
    /\ UNCHANGED notHexVars

HexNext == HexDecode \/ HexEncodeBack \/ HexEncode \/ HexDecodeBack

-----------------------------------------------------------------------------
(* RelayConnection under any sequence of its operations (relay.rs 47-192) *)

\* what an operation did: its result (for an error, the message), whether it
\* called a method of the socket, and for receive the kind of message read
RcDone(op, ok, err, touched, read) ==
    [op |-> op, ok |-> ok, err |-> err, touched |-> touched, read |-> read]

RcIdle ==
    /\ rc_pc = "off"
    /\ rc_connected = FALSE
    /\ rc_socket = FALSE
    /\ rc_ops = 0
    /\ rc_last = RcDone("none", TRUE, <<>>, FALSE, "none")

\* RelayConnection::new (relay.rs 49-55)
RcInit ==
    /\ rc_pc = "new"
    /\ rc_connected = FALSE
    /\ rc_socket = FALSE
    /\ rc_ops = 0
    /\ rc_last = RcDone("new", TRUE, <<>>, FALSE, "none")

\* one more operation is called
RcCall ==
    /\ rc_pc = "new"
    /\ rc_ops < MaxOps
    /\ rc_ops' = rc_ops + 1
    /\ UNCHANGED rc_pc

\* RelayConnection::connect (relay.rs 58-80)
RcConnect ==
    /\ RcCall
    /\ \E url \in Urls, connects \in BOOLEAN :
           IF ~UrlParses(url)
           THEN /\ rc_last' = RcDone("connect", FALSE, MsgInvalidUrl \o ErrText, FALSE, "none")
                /\ UNCHANGED <<rc_connected, rc_socket>>
           ELSE IF connects
           THEN /\ rc_socket' = TRUE
                /\ rc_connected' = TRUE
                /\ rc_last' = RcDone("connect", TRUE, <<>>, FALSE, "none")
           ELSE /\ rc_connected' = FALSE
                /\ rc_last' = RcDone("connect", FALSE, MsgConnectFailed \o url \o <<":", " ">>
                                                           \o ErrText, FALSE, "none")
                /\ UNCHANGED rc_socket
    /\ UNCHANGED notRcVars

\* RelayConnection::disconnect (relay.rs 83-91)
RcDisconnect ==
    /\ RcCall
    /\ rc_socket' = FALSE
    /\ rc_connected' = FALSE
    /\ rc_last' = RcDone("disconnect", TRUE, <<>>, rc_socket, "none")
    /\ UNCHANGED notRcVars

\* RelayConnection::send (relay.rs 94-115)
RelaySend(op, is_connected, has_socket, sent) ==
    IF ~is_connected THEN RcDone(op, FALSE, MsgNotConnected, FALSE, "none")
    ELSE IF ~has_socket THEN RcDone(op, FALSE, MsgNoSocket, FALSE, "none")
    ELSE IF sent THEN RcDone(op, TRUE, <<>>, TRUE, "none")
    ELSE RcDone(op, FALSE, MsgSendFailed \o ErrText, TRUE, "none")

\* send and the three operations that build a message and call it
RcSendAs(op) ==
    /\ RcCall
    /\ \E sent \in BOOLEAN : rc_last' = RelaySend(op, rc_connected, rc_socket, sent)
    /\ UNCHANGED <<rc_connected, rc_socket>>
    /\ UNCHANGED notRcVars

RcSend == RcSendAs("send")

\* RelayConnection::subscribe (relay.rs 168-174)
RcSubscribe == RcSendAs("subscribe")

\* RelayConnection::close_subscription (relay.rs 177-182)
RcCloseSubscription == RcSendAs("close_subscription")

\* RelayConnection::publish_event (relay.rs 185-191)
RcPublishEvent == RcSendAs("publish_event")

\* RelayConnection::receive (relay.rs 118-164)
RcReceive ==
    /\ RcCall
    /\ \E frame \in Frames :
           LET received == Receive(rc_connected, rc_socket, frame)
               touched == rc_connected /\ rc_socket
           IN  /\ rc_last' = RcDone("receive", received.ok, received.err, touched,
                                    IF touched THEN frame.kind ELSE "none")
               /\ rc_connected' = ConnectedAfterReceive(rc_connected, rc_socket, frame)
    /\ UNCHANGED rc_socket
    /\ UNCHANGED notRcVars

RcNext ==
    \/ RcConnect \/ RcDisconnect
    \/ RcSend \/ RcSubscribe \/ RcCloseSubscription \/ RcPublishEvent
    \/ RcReceive

-----------------------------------------------------------------------------
(* The direct-message stream: run_relay_dm_stream (relay.rs 599-671), one task
   per relay, and the receive loop of start_dm_stream (main.rs 950-1023) *)

\* an event a relay sends: its id, its kind, and whether our key is its
\* sender or its recipient
DmEvent(id, kind, ours) == [type |-> "Event", id |-> id, kind |-> kind, ours |-> ours]

\* what a read of the socket can yield inside the loop
DmEose == [type |-> "Eose", id |-> 0, kind |-> 0, ours |-> FALSE]
DmOtherText == [type |-> "Notice", id |-> 0, kind |-> 0, ours |-> FALSE]
DmBadText == [type |-> "ParseError", id |-> 0, kind |-> 0, ours |-> FALSE]
DmOtherFrame == [type |-> "Frame", id |-> 0, kind |-> 0, ours |-> FALSE]
DmTimeoutRead == [type |-> "Timeout", id |-> 0, kind |-> 0, ours |-> FALSE]
DmEnd(why) == [type |-> why, id |-> 0, kind |-> 0, ours |-> FALSE]

\* text frames: a direct message of ours, one between others, a note, EOSE,
\* a NOTICE or OK, and a text that does not parse
DmTexts ==
    {DmEvent(1, KIND_DM, TRUE), DmEvent(2, KIND_DM, FALSE),
     DmEvent(2, KIND_TEXT_NOTE, TRUE), DmEose, DmOtherText, DmBadText}

\* Close frame, read error, end of stream
DmEnds == {"close", "read_error", "end_of_stream"}

\* messages on the channel; `live` notes whether every relay of the fan-out
\* had sent its EOSE when the event was read (kept for the properties)
DmEventMsg(r, event, live) ==
    [type |-> "Event", from |-> r, id |-> event.id, ours |-> event.ours, live |-> live]
DmNoticeMsg(r) == [type |-> "Notice", from |-> r, id |-> 0, ours |-> FALSE, live |-> FALSE]

\* what the consumer emits to the frontend
DmReceived(id) == [name |-> "dm-received", id |-> id]
DmSyncDone == [name |-> "dm-sync-done", id |-> 0]

\* what the consumer did with an event (kept for the properties)
DmLogged(id, live, sync, result) ==
    [id |-> id, live |-> live, sync |-> sync, result |-> result]

DmIdle ==
    /\ dm_num_relays = 0
    /\ dm_pc = "idle"
    /\ dm_prod = [r \in Relays |-> "idle"]
    /\ dm_exit = [r \in Relays |-> "none"]
    /\ dm_wire = [r \in Relays |-> <<>>]
    /\ dm_sent = [r \in Relays |-> <<>>]
    /\ dm_chan = <<>>
    /\ dm_eose_count = 0
    /\ dm_initial_sync = TRUE
    /\ dm_store = FileAbsent
    /\ dm_emitted = <<>>
    /\ dm_log = <<>>

\* the command is invoked with the configured relay list
DmInit ==
    /\ dm_num_relays \in 0..MaxRelays
    /\ dm_pc = "start"
    /\ dm_prod = [r \in Relays |-> "idle"]
    /\ dm_exit = [r \in Relays |-> "none"]
    /\ dm_wire = [r \in Relays |-> <<>>]
    /\ dm_sent = [r \in Relays |-> <<>>]
    /\ dm_chan = <<>>
    /\ dm_eose_count = 0
    /\ dm_initial_sync = TRUE
    /\ dm_store = FileAbsent
    /\ dm_emitted = <<>>
    /\ dm_log = <<>>

\* start_dm_stream: no relay -> Ok(()) with nothing started; otherwise one
\* task per relay, the consumer's tx is dropped and the receive loop is
\* entered (main.rs 955-983)
StartDmStream ==
    /\ dm_pc = "start"
    /\ IF dm_num_relays = 0
       THEN /\ dm_pc' = "skipped"
            /\ UNCHANGED dm_prod
       ELSE /\ dm_pc' = "recv"
            /\ dm_prod' = [r \in Relays |-> IF r <= dm_num_relays THEN "start" ELSE "idle"]
    /\ UNCHANGED <<dm_num_relays, dm_exit, dm_wire, dm_sent, dm_chan, dm_eose_count,
                   dm_initial_sync, dm_store, dm_emitted, dm_log>>
    /\ UNCHANGED notDmVars

\* the receiver is dropped once the consumer has left its loop
DmReceiverGone == dm_pc = "done"

\* the task returns before its loop
DmReturnEarly(r, why) ==
    /\ dm_prod[r] = "start"
    /\ dm_prod' = [dm_prod EXCEPT ![r] = "done"]
    /\ dm_exit' = [dm_exit EXCEPT ![r] = why]
    /\ UNCHANGED <<dm_num_relays, dm_pc, dm_wire, dm_sent, dm_eose_count, dm_initial_sync,
                   dm_store, dm_emitted, dm_log>>
    /\ UNCHANGED notDmVars

\* Url::parse fails: a Notice is sent and the task returns (relay.rs 605-611)
DmUrlInvalid(r) ==
    /\ DmReturnEarly(r, "invalid_url")
    /\ dm_chan' = IF DmReceiverGone THEN dm_chan ELSE Append(dm_chan, DmNoticeMsg(r))

\* connect_async fails: the task returns (relay.rs 613-619)
DmConnectFail(r) ==
    /\ DmReturnEarly(r, "connect_failed")
    /\ UNCHANGED dm_chan

\* sending the REQ fails: the task returns (relay.rs 634-636)
DmReqFail(r) ==
    /\ DmReturnEarly(r, "req_failed")
    /\ UNCHANGED dm_chan

\* URL parsed, connected, REQ with both filters sent (relay.rs 605-636)
DmSubscribed(r) ==
    /\ dm_prod[r] = "start"
    /\ dm_prod' = [dm_prod EXCEPT ![r] = "streaming"]
    /\ UNCHANGED <<dm_num_relays, dm_pc, dm_exit, dm_wire, dm_sent, dm_chan, dm_eose_count,
                   dm_initial_sync, dm_store, dm_emitted, dm_log>>
    /\ UNCHANGED notDmVars

RECURSIVE DmReadsUpTo(_)
DmReadsUpTo(r) == IF r = 0 THEN 0 ELSE Len(dm_wire[r]) + DmReadsUpTo(r - 1)

\* reads made so far by all tasks
DmReads == DmReadsUpTo(MaxRelays)

\* every relay of the fan-out has sent its EOSE
DmAllEoseSent ==
    \A r \in 1..dm_num_relays : \E i \in 1..Len(dm_wire[r]) : dm_wire[r][i] = DmEose

\* the loop also ends when the relay says the stored events are over
DmOnTextBreakOnEose(text, receiver_gone) ==
    IF text.type = "Event" /\ text.kind = KIND_DM
    THEN IF receiver_gone THEN "send_failed" ELSE "forward"
    ELSE IF text.type = "Eose" THEN "eose" ELSE "continue"

\* what the loop does with a text frame (relay.rs 644-663): an event of kind
\* 4 is sent on the channel, and a failed send breaks; everything else,
\* EndOfStoredEvents included, goes round again
DmOnText(text, receiver_gone) ==
    IF text.type = "Event" /\ text.kind = KIND_DM
    THEN IF receiver_gone THEN "send_failed" ELSE "forward"
    ELSE "continue"

\* Ok(Some(Ok(WsMessage::Text(text)))) (relay.rs 644-663)
DmRecvText(r) ==
    /\ dm_prod[r] = "streaming"
    /\ DmReads < MaxDmReads
    /\ \E text \in DmTexts :
           LET outcome == DmOnText(text, DmReceiverGone) IN
           /\ dm_wire' = [dm_wire EXCEPT ![r] = Append(@, text)]
           /\ IF outcome = "forward"
              THEN /\ dm_chan' = Append(dm_chan, DmEventMsg(r, text, DmAllEoseSent))
                   /\ dm_sent' = [dm_sent EXCEPT ![r] = Append(@, text.id)]
              ELSE UNCHANGED <<dm_chan, dm_sent>>
           /\ IF outcome \in {"forward", "continue"}
              THEN UNCHANGED <<dm_prod, dm_exit>>
              ELSE /\ dm_prod' = [dm_prod EXCEPT ![r] = "done"]
                   /\ dm_exit' = [dm_exit EXCEPT ![r] = outcome]
    /\ UNCHANGED <<dm_num_relays, dm_pc, dm_eose_count, dm_initial_sync, dm_store,
                   dm_emitted, dm_log>>
    /\ UNCHANGED notDmVars

\* binary, ping or pong frame, or the 60 s timeout: the loop goes round again
\* (relay.rs 666, 668)
DmRecvNothing(r) ==
    /\ dm_prod[r] = "streaming"
    /\ DmReads < MaxDmReads
    /\ \E read \in {DmOtherFrame, DmTimeoutRead} :
           dm_wire' = [dm_wire EXCEPT ![r] = Append(@, read)]
    /\ UNCHANGED <<dm_num_relays, dm_pc, dm_prod, dm_exit, dm_sent, dm_chan, dm_eose_count,
                   dm_initial_sync, dm_store, dm_emitted, dm_log>>
    /\ UNCHANGED notDmVars

\* Close frame, read error or end of stream: break (relay.rs 665, 667)
DmRecvClosed(r) ==
    /\ dm_prod[r] = "streaming"
    /\ DmReads < MaxDmReads
    /\ \E why \in DmEnds :
           /\ dm_wire' = [dm_wire EXCEPT ![r] = Append(@, DmEnd(why))]
           /\ dm_exit' = [dm_exit EXCEPT ![r] = why]
    /\ dm_prod' = [dm_prod EXCEPT ![r] = "done"]
    /\ UNCHANGED <<dm_num_relays, dm_pc, dm_sent, dm_chan, dm_eose_count, dm_initial_sync,
                   dm_store, dm_emitted, dm_log>>
    /\ UNCHANGED notDmVars

\* a notification goes out for every new message
DmNotifyAlways(initial_sync) == TRUE

\* a new message is notified only after the initial sync (main.rs 991-998)
DmNotify(initial_sync) == ~initial_sync

\* the consumer's test after counting an Eose marker (main.rs 1011)
DmSyncOver(initial_sync, count) == initial_sync /\ count >= dm_num_relays

\* the event behind a message of the channel: the fields the store looks at
DmStoredEvent(id) == NostrEvent(DecimalString(id), <<"p">>, 0, KIND_DM, <<>>, <<>>, <<>>)

\* one iteration of `while let Some(msg) = rx.recv().await` (main.rs 985-1019);
\* append_raw_event, given the text of event_to_json, answers Ok(true),
\* Ok(false) when its search of the file finds the id, or Err
DmConsume ==
    /\ dm_pc = "recv"
    /\ dm_chan # <<>>
    /\ dm_chan' = Tail(dm_chan)
    /\ LET msg == Head(dm_chan) IN
       CASE msg.type = "Event" ->
                /\ UNCHANGED <<dm_eose_count, dm_initial_sync>>
                /\ IF ~msg.ours
                   THEN /\ dm_log' = Append(dm_log, DmLogged(msg.id, msg.live,
                                                             dm_initial_sync, "not_ours"))
                        /\ UNCHANGED <<dm_store, dm_emitted>>
                   ELSE \E stored \in BOOLEAN :
                        IF ~stored
                        THEN /\ dm_log' = Append(dm_log, DmLogged(msg.id, msg.live,
                                                                  dm_initial_sync, "error"))
                             /\ UNCHANGED <<dm_store, dm_emitted>>
                        ELSE IF dm_store.exists
                                /\ IsDuplicate(dm_store.contents,
                                               ToLowercase(DmStoredEvent(msg.id).id))
                        THEN /\ dm_log' = Append(dm_log, DmLogged(msg.id, msg.live,
                                                                  dm_initial_sync, "duplicate"))
                             /\ UNCHANGED <<dm_store, dm_emitted>>
                        ELSE /\ dm_log' = Append(dm_log, DmLogged(msg.id, msg.live,
                                                                  dm_initial_sync, "new"))
                             /\ dm_store' =
                                    LET raw == EventToJson(DmStoredEvent(msg.id)) IN
                                    FileWith(IF dm_store.exists
                                             THEN AppendedTo(dm_store.contents, raw)
                                             ELSE NewFile(raw))
                             /\ dm_emitted' = IF DmNotify(dm_initial_sync)
                                              THEN Append(dm_emitted, DmReceived(msg.id))
                                              ELSE dm_emitted
         [] msg.type = "Eose" ->
                /\ dm_eose_count' = dm_eose_count + 1
                /\ IF DmSyncOver(dm_initial_sync, dm_eose_count + 1)
                   THEN /\ dm_initial_sync' = FALSE
                        /\ dm_emitted' = Append(dm_emitted, DmSyncDone)
                   ELSE UNCHANGED <<dm_initial_sync, dm_emitted>>
                /\ UNCHANGED <<dm_store, dm_log>>
         [] OTHER ->
                UNCHANGED <<dm_eose_count, dm_initial_sync, dm_store, dm_emitted, dm_log>>
    /\ UNCHANGED <<dm_num_relays, dm_pc, dm_prod, dm_exit, dm_wire, dm_sent>>
    /\ UNCHANGED notDmVars

\* every task has ended, so every sender is dropped: recv returns None and
\* the loop ends (main.rs 985)
DmChannelClosed ==
    /\ dm_pc = "recv"
    /\ dm_chan = <<>>
    /\ \A r \in Relays : dm_prod[r] \in {"idle", "done"}
    /\ dm_pc' = "done"
    /\ UNCHANGED <<dm_num_relays, dm_prod, dm_exit, dm_wire, dm_sent, dm_chan, dm_eose_count,
                   dm_initial_sync, dm_store, dm_emitted, dm_log>>
    /\ UNCHANGED notDmVars

DmNext ==
    \/ StartDmStream
    \/ \E r \in Relays : DmUrlInvalid(r)
    \/ \E r \in Relays : DmConnectFail(r)
    \/ \E r \in Relays : DmReqFail(r)
    \/ \E r \in Relays : DmSubscribed(r)
    \/ \E r \in Relays : DmRecvText(r)
    \/ \E r \in Relays : DmRecvNothing(r)
    \/ \E r \in Relays : DmRecvClosed(r)
    \/ DmConsume
    \/ DmChannelClosed

-----------------------------------------------------------------------------
(* Specifications *)

MergeSpecInit == MergeInit /\ FeedIdle /\ ConnIdle /\ PubIdle /\ FetchIdle /\ ThreadIdle /\ ParseIdle /\ BackoffIdle /\ HandshakeIdle /\ WsIdle /\ FrameIdle /\ SendIdle /\ DmIdle /\ StoreIdle /\ JsonIdle /\ HexIdle /\ RcIdle
MergeSpec == MergeSpecInit /\ [][MergeNext]_vars

FeedSpecInit == FeedInit /\ MergeIdle /\ ConnIdle /\ PubIdle /\ FetchIdle /\ ThreadIdle /\ ParseIdle /\ BackoffIdle /\ HandshakeIdle /\ WsIdle /\ FrameIdle /\ SendIdle /\ DmIdle /\ StoreIdle /\ JsonIdle /\ HexIdle /\ RcIdle
FeedSpec == FeedSpecInit /\ [][FeedNext]_vars

PubSpecInit == PubInit /\ MergeIdle /\ FeedIdle /\ FetchIdle /\ ThreadIdle /\ ParseIdle /\ BackoffIdle /\ HandshakeIdle /\ WsIdle /\ FrameIdle /\ SendIdle /\ DmIdle /\ StoreIdle /\ JsonIdle /\ HexIdle /\ RcIdle
PubSpec == PubSpecInit /\ [][PubNext]_vars

\* the program takes its steps and time passes; the relay owes nothing
PubFairSpec == PubSpec /\ WF_vars(PubProgram) /\ WF_vars(PubTick)

FetchSpecInit == FetchInit /\ MergeIdle /\ FeedIdle /\ PubIdle /\ ThreadIdle /\ ParseIdle /\ BackoffIdle /\ HandshakeIdle /\ WsIdle /\ FrameIdle /\ SendIdle /\ DmIdle /\ StoreIdle /\ JsonIdle /\ HexIdle /\ RcIdle
FetchSpec == FetchSpecInit /\ [][FetchNext]_vars
\* the program takes its steps and time passes; the relay owes nothing
FetchFairSpec == FetchSpec /\ WF_vars(FetchProgram) /\ WF_vars(FetchTick)

ThreadSpecInit == ThreadInit /\ MergeIdle /\ FeedIdle /\ ConnIdle /\ PubIdle /\ FetchIdle /\ ParseIdle /\ BackoffIdle /\ HandshakeIdle /\ WsIdle /\ FrameIdle /\ SendIdle /\ DmIdle /\ StoreIdle /\ JsonIdle /\ HexIdle /\ RcIdle
ThreadSpec == ThreadSpecInit /\ [][ThreadNext]_vars

ParseSpecInit ==
    /\ ParseInit /\ MergeIdle /\ FeedIdle /\ ConnIdle /\ PubIdle /\ FetchIdle
    /\ ThreadIdle /\ BackoffIdle /\ HandshakeIdle /\ WsIdle /\ FrameIdle /\ SendIdle /\ DmIdle /\ StoreIdle /\ JsonIdle /\ HexIdle /\ RcIdle
ParseSpec == ParseSpecInit /\ [][ParseNext]_vars

BackoffSpecInit ==
    /\ BackoffInit /\ MergeIdle /\ FeedIdle /\ ConnIdle /\ PubIdle /\ FetchIdle
    /\ ThreadIdle /\ ParseIdle /\ HandshakeIdle /\ WsIdle /\ FrameIdle /\ SendIdle /\ DmIdle /\ StoreIdle /\ JsonIdle /\ HexIdle /\ RcIdle
BackoffSpec == BackoffSpecInit /\ [][BackoffNext]_vars

HandshakeSpecInit ==
    /\ HandshakeInit /\ MergeIdle /\ FeedIdle /\ ConnIdle /\ PubIdle /\ FetchIdle
    /\ ThreadIdle /\ ParseIdle /\ BackoffIdle /\ WsIdle /\ FrameIdle /\ SendIdle /\ DmIdle /\ StoreIdle /\ JsonIdle /\ HexIdle /\ RcIdle
HandshakeSpec == HandshakeSpecInit /\ [][HandshakeNext]_vars

WsSpecInit ==
    /\ WsInit /\ MergeIdle /\ FeedIdle /\ ConnIdle /\ PubIdle /\ FetchIdle
    /\ ThreadIdle /\ ParseIdle /\ BackoffIdle /\ HandshakeIdle /\ FrameIdle /\ SendIdle /\ DmIdle /\ StoreIdle /\ JsonIdle /\ HexIdle /\ RcIdle
WsSpec == WsSpecInit /\ [][WsNext]_vars

FrameSpecInit ==
    /\ FrameInit /\ MergeIdle /\ FeedIdle /\ ConnIdle /\ PubIdle /\ FetchIdle
    /\ ThreadIdle /\ ParseIdle /\ BackoffIdle /\ HandshakeIdle /\ WsIdle /\ SendIdle /\ DmIdle /\ StoreIdle /\ JsonIdle /\ HexIdle /\ RcIdle
FrameSpec == FrameSpecInit /\ [][FrameNext]_vars

SendSpecInit ==
    /\ SendInit /\ MergeIdle /\ FeedIdle /\ ConnIdle /\ PubIdle /\ FetchIdle
    /\ ThreadIdle /\ ParseIdle /\ BackoffIdle /\ HandshakeIdle /\ WsIdle /\ FrameIdle /\ DmIdle /\ StoreIdle /\ JsonIdle /\ HexIdle /\ RcIdle
SendSpec == SendSpecInit /\ [][SendNext]_vars

DmSpecInit ==
    /\ DmInit /\ MergeIdle /\ FeedIdle /\ ConnIdle /\ PubIdle /\ FetchIdle
    /\ ThreadIdle /\ ParseIdle /\ BackoffIdle /\ HandshakeIdle /\ WsIdle /\ FrameIdle /\ SendIdle /\ StoreIdle /\ JsonIdle /\ HexIdle /\ RcIdle
DmSpec == DmSpecInit /\ [][DmNext]_vars

StoreSpecInit ==
    /\ StoreInit /\ MergeIdle /\ FeedIdle /\ ConnIdle /\ PubIdle /\ FetchIdle
    /\ ThreadIdle /\ ParseIdle /\ BackoffIdle /\ HandshakeIdle /\ WsIdle /\ FrameIdle /\ SendIdle /\ DmIdle /\ JsonIdle /\ HexIdle /\ RcIdle
StoreSpec == StoreSpecInit /\ [][StoreNext]_vars

JsonSpecInit ==
    /\ JsonInit /\ MergeIdle /\ FeedIdle /\ ConnIdle /\ PubIdle /\ FetchIdle
    /\ ThreadIdle /\ ParseIdle /\ BackoffIdle /\ HandshakeIdle /\ WsIdle /\ FrameIdle /\ SendIdle /\ DmIdle /\ StoreIdle /\ HexIdle /\ RcIdle
JsonSpec == JsonSpecInit /\ [][JsonNext]_vars

HexSpecInit ==
    /\ HexInit /\ MergeIdle /\ FeedIdle /\ ConnIdle /\ PubIdle /\ FetchIdle
    /\ ThreadIdle /\ ParseIdle /\ BackoffIdle /\ HandshakeIdle /\ WsIdle /\ FrameIdle /\ SendIdle /\ DmIdle /\ StoreIdle /\ JsonIdle /\ RcIdle
HexSpec == HexSpecInit /\ [][HexNext]_vars

\* the four loops that read relay messages: the feed stream, the
\* direct-message stream, the one-shot fetch and the wait of a publish
LoopsInit == FeedSpecInit \/ DmSpecInit \/ FetchSpecInit \/ PubSpecInit
LoopsNext == FeedNext \/ DmNext \/ FetchNext \/ PubNext
LoopsSpec == LoopsInit /\ [][LoopsNext]_vars

RcSpecInit ==
    /\ RcInit /\ MergeIdle /\ FeedIdle /\ ConnIdle /\ PubIdle /\ FetchIdle
    /\ ThreadIdle /\ ParseIdle /\ BackoffIdle /\ HandshakeIdle /\ WsIdle /\ FrameIdle /\ SendIdle /\ DmIdle /\ StoreIdle /\ JsonIdle /\ HexIdle
RcSpec == RcSpecInit /\ [][RcNext]_vars

-----------------------------------------------------------------------------
(* Properties of fetch_notes_from_relays *)

IdsOf(s) == {s[i].id : i \in 1..Len(s)}
ElemsOf(s) == {s[i] : i \in 1..Len(s)}

\* C1: whatever the relays returned and whatever the limit, the merged result
\* holds no event id twice, is ordered by created_at descending, has
\* min(limit, number of distinct ids) entries, every one of them a fetched
\* event, and no fetched event left out is newer than an entry kept (the
\* result is the first `limit` of the ordered, deduplicated list).
C1_MergedResult ==
    (mergePc = "done" /\ mergeResult = "Ok") =>
        /\ \A i, j \in 1..Len(unique_events) :
               i # j => unique_events[i].id # unique_events[j].id
        /\ \A i \in 1..(Len(unique_events) - 1) :
               unique_events[i].created_at >= unique_events[i + 1].created_at
        /\ Len(unique_events) <= limit
        /\ Len(unique_events) = Min(limit, Cardinality(IdsOf(all_events)))
        /\ ElemsOf(unique_events) \subseteq ElemsOf(all_events)
        /\ \A e \in ElemsOf(all_events) :
               e.id \notin IdsOf(unique_events) =>
                   \A i \in 1..Len(unique_events) :
                       unique_events[i].created_at >= e.created_at

\* C1 witness: a merge of overlapping ids (some id fetched more than once) with
\* different timestamps that was truncated to a positive limit
C1_Witness ==
    /\ mergePc = "done" /\ mergeResult = "Ok"
    /\ relay_count >= 2
    /\ Len(all_events) > Cardinality(IdsOf(all_events))
    /\ Cardinality(IdsOf(all_events)) > limit
    /\ limit >= 1
    /\ \E i, j \in 1..Len(all_events) :
           all_events[i].created_at < all_events[j].created_at /\ i < j

-----------------------------------------------------------------------------
(* Properties of the streaming feed *)

CaughtUpCount == Cardinality({i \in 1..Len(emitted) : emitted[i].name = "eose"})

NotesEmitted == Cardinality({i \in 1..Len(emitted) : emitted[i].name = "note"})

\* Eose markers task r has put on the channel so far: those still queued plus
\* those the consumer has counted
EoseSentBy(r) ==
    eose_seen[r] + Cardinality({i \in 1..Len(chan) : chan[i] = EoseMsg(r)})

\* C2: the caught-up event is emitted at most once, and only when the consumer
\* has counted an Eose marker of every relay of the fan-out set (so at least
\* num_relays of them); with more than one relay it is not emitted after the
\* first Eose.
C2_CaughtUpOnlyAfterAll ==
    /\ CaughtUpCount <= 1
    /\ CaughtUpCount = 1 =>
           /\ eose_count >= num_relays
           /\ \A r \in 1..num_relays : eose_seen[r] >= 1
    /\ (num_relays > 1 /\ eose_count <= 1) => CaughtUpCount = 0

\* C2 witness: two relays, one ended by its EOSE after forwarding an event, the
\* other by its deadline, and the caught-up event was emitted after a note
C2_Witness ==
    /\ num_relays > 1
    /\ CaughtUpCount = 1
    /\ NotesEmitted >= 1
    /\ \E a, b \in 1..num_relays :
           /\ prodExit[a] = "eose" /\ wire_events[a] >= 1
           /\ prodExit[b] = "deadline"

\* C3 (as claimed): a task that has ended has sent exactly one Eose marker,
\* whichever way it ended.
C3_ExactlyOneEose ==
    \A r \in 1..num_relays : prodPc[r] = "done" => EoseSentBy(r) = 1

\* C4 (as claimed, as the final result of the run): when every relay task has
\* completed and the consumer has left its loop, the caught-up event was
\* emitted exactly once.
C4_CaughtUpWhenAllComplete ==
    (feedPc = "done" /\ AllSendersDropped) => CaughtUpCount = 1

-----------------------------------------------------------------------------
(* Properties of publishing *)

LastResult == results[Len(results)]

\* the text is a well-formed ["OK", <published id>, false, <message>]
IsRejection(text) ==
    \E m \in {TextEmpty, TextSpam} :
        text = JArray(<<JString(StrOK), JString(PublishedId), JBool(FALSE), JString(m)>>)

\* the message of such a text
RejectionMessage(text) == text[5].s

\* C5: when publish_event_to_relay receives an OK for the published event id
\* with success = false, it returns Ok(PublishResult) with success = false and
\* the relay's message, not an Err.
C5_RejectionIsAResult ==
    [][(PubReceive /\ Head(inbox).kind = "Text" /\ IsRejection(Head(inbox).text)) =>
           /\ results' = Append(results,
                  PublishResult(CurrentUrl, FALSE, RejectionMessage(Head(inbox).text)))
           /\ relay_returns' = Append(relay_returns, "Ok")]_vars

\* C5 witness: a relay answered ["OK", id, false, "spam"] and the result says so
C5_Witness ==
    /\ results # <<>>
    /\ LastResult.success = FALSE
    /\ LastResult.message = TextSpam
    /\ relay_returns[Len(relay_returns)] = "Ok"

\* what a text message is, read off the parsed message alone
EndsTheWait(msg) ==
    \/ msg.kind = "Ok" /\ msg.id = PublishedId
    \/ msg.kind = "Notice" /\ Contains(msg.message, PublishedId)
    \/ msg.kind = "Notice" /\ \E i \in 1..Len(msg.message) :
           /\ i + 4 <= Len(msg.message)
           /\ \A k \in 0..4 : ToLowerChar(msg.message[i + k]) = StrError[k + 1]

\* C6: in the wait loop a text message that is neither an OK for the published
\* id nor a NOTICE that appears related (it names the event id or the word
\* "error", in any case) is ignored: the wait goes on and no result is pushed;
\* the first message that is one of the two ends the wait, and the result is
\* that message's verdict alone (the OK's flag and message, or false and the
\* notice's text).
C6_WaitEndsAtFirstMatch ==
    [][(PubReceive /\ Head(inbox).kind = "Text") =>
           LET msg == ParseRelayMessage(Head(inbox).text) IN
           IF EndsTheWait(msg)
           THEN /\ pubPc' = "loop"
                /\ results' = Append(results,
                       PublishResult(CurrentUrl,
                                     IF msg.kind = "Ok" THEN msg.success ELSE FALSE,
                                     msg.message))
           ELSE /\ pubPc' = "waiting"
                /\ results' = results
                /\ pub_idx' = pub_idx]_vars

\* C6 witness: the wait was ended by an accepting OK for the published event
\* (nothing else yields success = true)
C6_Witness ==
    /\ results # <<>>
    /\ LastResult.success = TRUE

InWait == pubPc \in {"waiting", "receiving"}

\* C7 (as claimed): once the EVENT is sent, publish_event_to_relay eventually
\* returns, whatever the relay does (by the timeout, if by nothing else).
C7_WaitEventuallyEnds == InWait ~> ~InWait

\* C8: publish_event_to_relays builds one PublishResult per relay visited, in
\* input order and with that relay's URL; when it returns there is one for
\* every URL of the list; and a relay for which publish_event_to_relay
\* returned Err (connect or send failed) has an entry with success = false.
C8_OneResultPerRelay ==
    /\ Len(results) = pub_idx
    /\ Len(relay_returns) = pub_idx
    /\ pub_idx <= Len(relay_urls)
    /\ \A i \in 1..Len(results) : results[i].relay_url = relay_urls[i]
    /\ \A i \in 1..Len(results) : relay_returns[i] = "Err" => ~results[i].success
    /\ pubPc = "returned" => Len(results) = Len(relay_urls)

\* C8 witness: two relays, the first failed at the transport level, the second
\* accepted, and publish_event_to_relays has returned both results
C8_Witness ==
    /\ pubPc = "returned"
    /\ Len(relay_urls) >= 2
    /\ relay_returns[1] = "Err"
    /\ results[2].success

Accepted == \E i \in 1..Len(results) : results[i].success

\* C9 (as claimed): a publishing command reports success if and only if at
\* least one relay accepted.
C9_SuccessIffAccepted ==
    pubPc = "finished" => (commandResult = "Ok" <=> Accepted)

\* C9 (amended): a publishing command returns an error when no relay accepted
\* and reports success only if at least one did; for post_note success is
\* reported if and only if at least one relay accepted.
C9_SuccessOnlyIfAccepted ==
    pubPc = "finished" =>
        /\ commandResult \in {"Ok", "Err"}
        /\ commandResult = "Ok" => Accepted
        /\ ~Accepted => commandResult = "Err"
        /\ command = "post_note" => (commandResult = "Ok" <=> Accepted)

\* C9 witness: post_note succeeded although one of two relays did not accept
C9_Witness ==
    /\ pubPc = "finished"
    /\ command = "post_note"
    /\ commandResult = "Ok"
    /\ \E i \in 1..Len(results) : ~results[i].success

-----------------------------------------------------------------------------
(* Properties of the one-shot fetch *)

\* C10: fetch_notes_from_relay returns Err exactly when connect failed or the
\* REQ could not be sent; whenever it leaves its loop (EOSE, timeout, or a
\* receive error) it returns Ok with the events collected, also when there
\* are none.
C10_FetchErrorPolicy ==
    fetchPc = "returned" =>
        /\ fetchResult \in {"Ok", "Err"}
        /\ fetchResult = "Err" <=>
               fetchExit \in {"invalid_url", "connect_failed", "subscribe_failed"}
        /\ fetchExit \in {"eose", "timeout", "receive_error"} => fetchResult = "Ok"

\* C10 witness: the relay sent EOSE at once (or nothing before the timeout) and
\* the function returned Ok with zero events
C10_Witness ==
    /\ fetchPc = "returned"
    /\ fetchExit \in {"eose", "timeout"}
    /\ events = <<>>
    /\ fetchResult = "Ok"

\* the REQ is sent and the function has not returned yet
FetchCollecting == fetchPc \in {"loop", "receiving"}

\* C11 (as claimed): once the REQ is sent, fetch_notes_from_relay eventually
\* returns its list, also when the relay sends neither EOSE nor anything else.
C11_FetchEventuallyReturns == FetchCollecting ~> (fetchPc = "returned")

-----------------------------------------------------------------------------
(* Properties of the multi-relay fetches *)

\* C12 (as claimed): with a non-empty relay list, a multi-relay fetch returns
\* an error exactly when every relay failed; otherwise it returns the merged
\* result of the relays that answered. (Here for fetch_replies_to_event and
\* fetch_events_by_ids.)
C12_ErrIffEveryRelayFailed ==
    (threadPc = "done" /\ ~key_empty /\ thread_relays > 0) =>
        (threadResult = "Err" <=> thread_errs = thread_relays)

\* the ids of a sequence of events are all different
NoIdTwice(s) == \A i, j \in 1..Len(s) : s[i].id = s[j].id => i = j

\* C13 (as claimed): fetch_replies_to_event returns the replies without an id
\* twice, each id once, in ascending created_at order, and no more of them
\* than the limit.
C13_RepliesMerged ==
    (threadPc = "done" /\ threadCmd = "fetch_replies_to_event" /\ threadResult = "Ok") =>
        /\ NoIdTwice(thread_unique)
        /\ \A i \in 1..(Len(thread_unique) - 1) : thread_unique[i].created_at <= thread_unique[i + 1].created_at
        /\ ElemsOf(thread_unique) \subseteq ElemsOf(thread_events)
        /\ Len(thread_unique) = Min(thread_limit, Cardinality(IdsOf(thread_events)))

-----------------------------------------------------------------------------
(* Properties of the relay-message parsers. What a message says is read here
   off its JSON structure: the members of the array, the direct members of
   the event object. *)

MessageMembers == Members(relay_text)

\* the text is ["EVENT", <string>, <object>]
IsEventMessage ==
    /\ IsValidJson(relay_text) /\ IsArray(relay_text)
    /\ Len(MessageMembers) = 3
    /\ MessageMembers[1] = JString(StrEVENT)
    /\ IsString(MessageMembers[2])
    /\ MessageMembers[3][1].ev = "StartObject"

EventObject == MessageMembers[3]

\* the direct members of an object: names and values in turn
ObjectMembers(obj) == MembersFrom(Tail(obj), 0, <<>>, <<>>)

\* the value of the direct member called name; null when there is none
DirectValue(obj, name) ==
    LET ms == ObjectMembers(obj)
        at == {i \in 1..Len(ms) : ms[i] = <<FieldName(name)>>}
    IN  IF at = {} THEN JNull ELSE ms[(CHOOSE i \in at : TRUE) + 1]

DirectString(obj, name) ==
    IF IsString(DirectValue(obj, name)) THEN AsStr(DirectValue(obj, name)) ELSE <<>>

DirectInt(obj, name) ==
    LET v == DirectValue(obj, name)
    IN  IF Len(v) = 1 /\ v[1].ev = "ValueInt" THEN MaxZero(v[1].n) ELSE 0

\* the object has a tags member that is an array of arrays of strings
HasStringTags(obj) ==
    LET t == DirectValue(obj, "tags")
    IN  /\ IsArray(t)
        /\ \A i \in 1..Len(Members(t)) :
               /\ IsArray(Members(t)[i])
               /\ \A j \in 1..Len(Members(Members(t)[i])) :
                      IsString(Members(Members(t)[i])[j])

\* that array of arrays
TagsOfObject(obj) ==
    LET t == Members(DirectValue(obj, "tags"))
    IN  [i \in 1..Len(t) |-> [j \in 1..Len(Members(t[i])) |-> AsStr(Members(t[i])[j])]]

\* C14 (as claimed): for ["EVENT", subId, eventObj] whose eventObj has a tags
\* array of string arrays, parse_relay_message_actson returns Event with that
\* subscription id and with event.tags equal to the array of arrays, order and
\* duplicates kept.
C14_ActsonKeepsTags ==
    (actsonResult # NotParsed /\ IsEventMessage /\ HasStringTags(EventObject)) =>
        /\ actsonResult.kind = "Event"
        /\ actsonResult.id = AsStr(MessageMembers[2])
        /\ actsonResult.event.tags = TagsOfObject(EventObject)

\* every field of the event holds the value of the direct member of that name
FieldsAreDirectMembers(event, obj) ==
    /\ event.id = DirectString(obj, "id")
    /\ event.pubkey = DirectString(obj, "pubkey")
    /\ event.content = DirectString(obj, "content")
    /\ event.sig = DirectString(obj, "sig")
    /\ event.created_at = DirectInt(obj, "created_at")
    /\ event.kind = DirectInt(obj, "kind")

\* C15 (as claimed): an Event field is set only from a direct member of the
\* event object; a value of the same name nested deeper never sets or
\* overwrites it, in parse_relay_message_actson and in nostr::parse_event.
C15_FieldsOnlyFromDirectMembers ==
    IsEventMessage =>
        /\ actsonResult.kind = "Event" =>
               FieldsAreDirectMembers(actsonResult.event, EventObject)
        /\ jsonResult.kind = "Event" =>
               FieldsAreDirectMembers(jsonResult.event, EventObject)

IsBool(value) == Len(value) = 1 /\ value[1].ev \in {"ValueTrue", "ValueFalse"}

\* the message has the members its type requires, of the required types
WellFormed(text) ==
    /\ IsValidJson(text) /\ IsArray(text)
    /\ Len(Members(text)) >= 1
    /\ IsString(Members(text)[1])
    /\ LET ms == Members(text)
           msg_type == AsStr(ms[1])
       IN  CASE msg_type = StrEVENT ->
                    Len(ms) = 3 /\ IsString(ms[2]) /\ ms[3][1].ev = "StartObject"
             [] msg_type = StrEOSE -> Len(ms) = 2 /\ IsString(ms[2])
             [] msg_type = StrNOTICE -> Len(ms) = 2 /\ IsString(ms[2])
             [] msg_type = StrOK ->
                    Len(ms) = 4 /\ IsString(ms[2]) /\ IsBool(ms[3]) /\ IsString(ms[4])
             [] OTHER -> TRUE

\* JSON, but a member is missing or of the wrong type
Malformed(text) == IsValidJson(text) /\ ~WellFormed(text)

\* C16 (as claimed): for a structurally malformed relay message both parsers
\* return an error, never a RelayMessage with defaults filled in.
C16_MalformedIsAnError ==
    Malformed(relay_text) =>
        /\ jsonResult # NotParsed => jsonResult.kind = "Err"
        /\ actsonResult # NotParsed => actsonResult.kind = "Err"

\* the message is well formed and its type is not EVENT
IsOtherMessage == WellFormed(relay_text) /\ MessageMembers[1] # JString(StrEVENT)

\* what such a message says
ExpectedMessage ==
    LET ms == MessageMembers
        msg_type == AsStr(ms[1])
    IN  CASE msg_type = StrEOSE -> RelayMessage("EndOfStoredEvents", AsStr(ms[2]), FALSE, <<>>)
          [] msg_type = StrNOTICE -> RelayMessage("Notice", <<>>, FALSE, AsStr(ms[2]))
          [] msg_type = StrOK ->
                 RelayMessage("Ok", AsStr(ms[2]), ms[3] = JBool(TRUE), AsStr(ms[4]))
          [] OTHER -> RelayMessageOf("Unknown", <<>>, FALSE, <<>>, NoEvent, relay_text)

\* C17: ["EOSE", s] parses to EndOfStoredEvents{s}, ["NOTICE", m] to Notice{m},
\* ["OK", id, b, m] to Ok{id, b, m}, and a message of any other type to Unknown
\* with the raw text, in parse_relay_message and in parse_relay_message_actson.
C17_OtherMessagesParse ==
    IsOtherMessage =>
        /\ jsonResult # NotParsed => jsonResult = ExpectedMessage
        /\ actsonResult # NotParsed => actsonResult = ExpectedMessage

\* C17 witness: both parsers read ["OK", id, true, "spam"] as it stands
C17_Witness ==
    /\ relay_text = JArray(<<JString(StrOK), JString(PublishedId), JBool(TRUE),
                             JString(TextSpam)>>)
    /\ jsonResult = RelayMessage("Ok", PublishedId, TRUE, TextSpam)
    /\ actsonResult = jsonResult

-----------------------------------------------------------------------------
(* Properties of the backoff table *)

\* the step just taken recorded a failure (a success) for url
JustFailed(url) == backoff_op'.kind = "failure" /\ backoff_op'.url = url
JustSucceeded(url) == backoff_op'.kind = "success" /\ backoff_op'.url = url

OthersUntouched(url) == \A other \in BackoffUrls \ {url} : backoff'[other] = backoff[other]

JustAttempted(url, outcome) ==
    attempt'.op # "none" /\ attempt'.url = url /\ backoff_op'.kind = outcome

\* C19 (as claimed): no relay operation attempts a connection to a URL whose
\* backoff delay has not expired (its lookup in the table comes first), and
\* the outcome of every attempt is recorded in the table: a failure counts,
\* a success clears the entry.
C19_AttemptsAreGated ==
    [][\A url \in BackoffUrls :
           /\ JustAttempted(url, "attempt_failed") =>
                  /\ ~CheckRelayBackoff(backoff, url, now).some
                  /\ backoff' = RecordRelayFailure(backoff, url, now)
           /\ JustAttempted(url, "attempt_connected") =>
                  /\ ~CheckRelayBackoff(backoff, url, now).some
                  /\ backoff' = RecordRelaySuccess(backoff, url)]_vars

-----------------------------------------------------------------------------
(* Properties of the handshake *)

\* C20: verify_accept succeeds on the accept value computed from the key
\* itself, fails on the accept value of any key whose accept value differs,
\* and fails when there is no accept header.
C20_AcceptVerified ==
    verifyResult # "none" =>
        /\ accept_header = Some(ComputeExpectedAccept(key_base64)) => verifyResult = "Ok"
        /\ \A other \in Keys :
               (/\ accept_header = Some(ComputeExpectedAccept(other))
                /\ ComputeExpectedAccept(other) # ComputeExpectedAccept(key_base64))
               => verifyResult # "Ok"
        /\ accept_header = None => verifyResult # "Ok"

\* C20 witness: the accept value of another key, which differs, was refused
C20_Witness ==
    /\ verifyResult = "mismatch"
    /\ \E other \in Keys :
           /\ other # key_base64
           /\ accept_header = Some(ComputeExpectedAccept(other))
           /\ ComputeExpectedAccept(other) # ComputeExpectedAccept(key_base64)

-----------------------------------------------------------------------------
(* Properties of WebSocketClient::connect and WebSocketConnection::run *)

\* the response as the server wrote it carries status 101 and the accept
\* value of the key that was sent
ServerAccepts ==
    /\ ws_server.status_text = Status101
    /\ ws_server.accept.some
    /\ ws_server.accept.v = ComputeExpectedAccept(ws_key)

\* the whole response, terminator included, has been read
TerminatorRead == Len(ws_read_buf) >= Len(ResponseBytes(ws_server))

ConnectErrors == {"InvalidInput", "IoError", "UnexpectedEof", "InvalidData", "BadStatus",
                  "mismatch", "missing"}

\* C21: connect returns a connection only after the header terminator, with
\* status 101 and the accept value of the key it sent; a response with another
\* status, without or with another accept value, or the end of the stream
\* before the terminator ends connect with an error and without a connection,
\* and connect then reads no more.
C21_HandshakeValidated ==
    /\ [](/\ ws_connect = "Ok" => TerminatorRead /\ ServerAccepts
          /\ (TerminatorRead /\ ~ServerAccepts) => ws_connect \in ConnectErrors
          /\ ws_connect \in ConnectErrors =>
                 ws_pc = "failed" /\ conn_read_buf = <<>> /\ ws_dispatched = <<>>)
    /\ [][ws_pc = "failed" => UNCHANGED wsVars]_vars

\* C21 witness: a 101 response with the accept value of another key was refused
C21_Witness ==
    /\ ws_connect = "mismatch"
    /\ ws_pc = "failed"
    /\ ws_server.status_text = Status101
    /\ ws_server.accept.some

\* the bytes the server sends behind its response
WsBody == ServerBytes(ws_frames)

\* what connect has read behind the header terminator
ReadBehindHeader ==
    SubSeq(ws_read_buf, Len(ResponseBytes(ws_server)) + 1, Len(ws_read_buf))

\* C22: however the bytes are split over the reads, connect stops reading as
\* soon as the terminator is in its buffer, the bytes it read behind the
\* terminator start the connection's read buffer, and the frame parser gets
\* them first and then the later bytes: what was fed and what is still to be
\* read always make up the server's bytes, in order.
C22_LeftoverKept ==
    /\ ws_pc = "handshake" => ~TerminatorRead
    /\ ws_pc \in {"handshake", "connected"} =>
           ws_read_buf \o ws_wire = ResponseBytes(ws_server) \o WsBody
    /\ ws_pc = "connected" => conn_read_buf = ReadBehindHeader /\ ws_fed = <<>>
    /\ ws_pc \in {"loop", "returned"} =>
           /\ ws_fed \o ws_wire = WsBody
           /\ Len(ws_fed) >= Len(ReadBehindHeader)

\* C22 witness: the read that completed the header also brought part of a
\* frame, run has fed it, and the rest is still to come
C22_Witness ==
    /\ ws_pc = "loop"
    /\ ReadBehindHeader # <<>>
    /\ ws_fed = ReadBehindHeader
    /\ ws_wire # <<>>

-----------------------------------------------------------------------------
(* Properties of the frame codec *)

\* C23: decoding the bytes that encode_frame produced gives back the opcode
\* and the unmasked payload, and uses all the bytes, for each opcode, mask key
\* and payload length, the lengths at which the length encoding changes
\* included.
C23_FrameRoundTrip ==
    codec_out.state # "none" =>
        /\ codec_out.state = "frame"
        /\ codec_out.opcode = codec_in.opcode
        /\ codec_out.payload = SamplePayload(codec_in.len, codec_in.seed)
        /\ codec_out.used = Len(codec_wire)

\* a masked ping frame of 126 bytes, the first length that takes the 16-bit
\* form, came back
C23_Witness ==
    /\ codec_out.state = "frame"
    /\ codec_in.opcode = OP_PING
    /\ codec_in.len = Len16
    /\ \E i \in 1..MaskKeyLen : codec_in.mask_key[i] # 0
    /\ Len(codec_out.payload) = Len16

\* a close frame of 65536 bytes, the first length that takes the 64-bit form,
\* came back
C23_WitnessLarge ==
    /\ codec_out.state = "frame"
    /\ codec_in.opcode = OP_CLOSE
    /\ codec_in.len = U16Max + 1
    /\ Len(codec_out.payload) = U16Max + 1

\* the frames of the relay's stream that lie wholly within its first n
\* bytes, up to the first frame the parser rejects
RECURSIVE FramesWithin(_, _)
FramesWithin(frames, n) ==
    IF frames = <<>> \/ Head(frames).rsv \/ Len(ServerFrameBytes(Head(frames))) > n
    THEN <<>>
    ELSE <<WireFrame(Head(frames).opcode, Head(frames).payload)>>
             \o FramesWithin(Tail(frames), n - Len(ServerFrameBytes(Head(frames))))

\* C24: frame decoding is independent of read chunking: however the relay's
\* byte stream is cut into socket reads (a frame split at any byte, several
\* frames in one read), the frames run has dispatched to the handler are the
\* frames that lie wholly within the bytes read so far, in wire order, each
\* exactly once; once the whole stream is read they are all the relay's frames
C24_ChunkingIndependent ==
    /\ ws_dispatched = AdapterFrames(FramesWithin(ws_frames, Len(ws_fed)))
    /\ ws_fed = SubSeq(ServerBytes(ws_frames), 1, Len(ws_fed))

\* a read ended inside the second frame: run has dispatched the first frame
\* once and holds the first bytes of the second, which it has not dispatched
C24_Witness ==
    /\ ws_pc = "loop"
    /\ Len(ws_frames) = 2
    /\ Len(ws_dispatched) = 1
    /\ conn_read_buf # <<>>
    /\ Len(conn_read_buf) < Len(ServerFrameBytes(ws_frames[2]))
    /\ conn_read_buf = SubSeq(ServerFrameBytes(ws_frames[2]), 1, Len(conn_read_buf))

\* both frames of the stream came in one read and were dispatched in order
C24_WitnessOneRead ==
    /\ ws_pc = "loop"
    /\ Len(ws_dispatched) = 2
    /\ Len(ws_fed) = Len(ServerBytes(ws_frames))
    /\ conn_read_buf = <<>>

\* a Close frame has been dispatched to the handler
CloseDispatched == \E i \in 1..Len(ws_dispatched) : ws_dispatched[i].callback = "close"

\* C25: connection lifecycle: run returns on end of stream, on an inbound
\* Close frame, on an I/O error and when the handler signals it is done; once
\* an inbound Close frame has been dispatched run has returned, reading no
\* further frame, whatever should_stop answers
C25_CloseEndsRun ==
    /\ ws_exit \in {"eof", "read_error", "parse_error", "leftover_error"} => ws_pc = "returned"
    /\ ws_exit \in {"stop", "leftover_stop"} => ws_pc = "returned" /\ ws_run = "Ok"
    /\ CloseDispatched => ws_pc = "returned"

\* C26: an I/O error on a WebSocketConnection is terminal and reported twice:
\* when a read of run or a write of a send operation fails, the handler's
\* failed callback is invoked exactly once and the error is returned to the
\* caller
C26_IoErrorReported ==
    send_result = "IoError" => send_failed = 1

\* the part of C26 that is about run: an error in its read path is returned
\* after exactly one call of handler.failed, and run reads no more
RunErrorReported ==
    /\ ws_run = "Err" <=> ws_failed = 1
    /\ ws_failed <= 1
    /\ ws_run = "Err" => ws_pc = "returned"

\* the latest send operation was given a control frame
ControlSent == send_call.op \in {"send_ping", "send_pong", "send_close"}

\* C27: send_ping, send_pong and send_close with a payload of more than 125
\* bytes (for send_close the 2-byte big-endian status code, when given, and
\* the reason) return InvalidInput and write nothing; with at most 125 bytes
\* they write exactly one frame, that frame, and flush it unless the stream
\* fails
C27_ControlPayloadCap ==
    ControlSent =>
        /\ Len(send_call.payload) > ControlPayloadCap =>
               send_result = "InvalidInput" /\ send_written = <<>> /\ ~send_flushed
        /\ Len(send_call.payload) <= ControlPayloadCap =>
               /\ send_result # "InvalidInput"
               /\ send_result = "Ok" =>
                      /\ send_flushed
                      /\ DecodeFrame(send_written).state = "frame"
                      /\ DecodeFrame(send_written).used = Len(send_written)
                      /\ DecodeFrame(send_written).opcode = send_call.opcode
                      /\ DecodeFrame(send_written).payload = send_call.payload

\* send_close with a status code and a reason of 124 bytes was refused, and
\* nothing was written
C27_Witness ==
    /\ send_call.op = "send_close"
    /\ Len(send_call.payload) = ControlPayloadCap + 1
    /\ SubSeq(send_call.payload, 1, 2) = BigEndian(CloseNormal, 2)
    /\ send_result = "InvalidInput"
    /\ send_written = <<>>

\* send_close with a status code and a reason of 123 bytes wrote one frame
C27_WitnessSent ==
    /\ send_call.op = "send_close"
    /\ Len(send_call.payload) = ControlPayloadCap
    /\ SubSeq(send_call.payload, 1, 2) = BigEndian(CloseNormal, 2)
    /\ send_result = "Ok"
    /\ send_flushed

\* the ids of the kind-4 events among what a task has read, in order
RECURSIVE DmIdsRead(_)
DmIdsRead(wire) ==
    IF wire = <<>> THEN <<>>
    ELSE IF Head(wire).type = "Event" /\ Head(wire).kind = KIND_DM
    THEN <<Head(wire).id>> \o DmIdsRead(Tail(wire))
    ELSE DmIdsRead(Tail(wire))

\* the statements through which run_relay_dm_stream may end once it reads
DmLoopExits == DmEnds \cup {"send_failed"}

\* C28: run_relay_dm_stream never ends because of an EOSE: after it, it keeps
\* reading and forwards every later kind-4 EVENT to the channel; it ends only
\* on a Close frame, a read error, the end of the stream or when the
\* channel's receiver is gone, and a read timeout alone never ends it
C28_DmStreamLongLived ==
    \A r \in Relays :
        /\ dm_exit[r] # "send_failed" => dm_sent[r] = DmIdsRead(dm_wire[r])
        /\ dm_wire[r] # <<>> /\ dm_prod[r] = "done" =>
               /\ dm_exit[r] \in DmLoopExits
               /\ dm_exit[r] \in DmEnds => dm_wire[r][Len(dm_wire[r])] = DmEnd(dm_exit[r])
        /\ dm_wire[r] # <<>> /\ dm_wire[r][Len(dm_wire[r])].type \notin DmEnds =>
               dm_prod[r] = "streaming" \/ dm_exit[r] = "send_failed"

\* a task has read EOSE and then a direct message, which it has sent on the
\* channel, and is still reading
C28_Witness ==
    \E r \in Relays :
        /\ dm_prod[r] = "streaming"
        /\ dm_wire[r] = <<DmEose, DmEvent(1, KIND_DM, TRUE)>>
        /\ dm_sent[r] = <<1>>
        /\ \E i \in 1..Len(dm_chan) : dm_chan[i].type = "Event" /\ dm_chan[i].from = r

\* a task whose reads timed out twice is still reading
C28_WitnessTimeout ==
    \E r \in Relays :
        dm_prod[r] = "streaming" /\ dm_wire[r] = <<DmTimeoutRead, DmTimeoutRead>>

\* the dm-sync-done notifications among what was emitted
RECURSIVE DmSyncDones(_)
DmSyncDones(notifications) ==
    IF notifications = <<>> THEN 0
    ELSE (IF Head(notifications) = DmSyncDone THEN 1 ELSE 0)
             + DmSyncDones(Tail(notifications))

\* one step of the consumer keeps the initial-sync discipline
DmSyncStep ==
    /\ dm_initial_sync' => dm_initial_sync
    /\ dm_emitted' # dm_emitted =>
           /\ Len(dm_emitted') = Len(dm_emitted) + 1
           /\ \/ /\ dm_emitted'[Len(dm_emitted')].name = "dm-received"
                 /\ ~dm_initial_sync
              \/ /\ dm_emitted'[Len(dm_emitted')] = DmSyncDone
                 /\ dm_initial_sync /\ ~dm_initial_sync'
                 /\ dm_eose_count' >= dm_num_relays
    /\ dm_initial_sync /\ ~dm_initial_sync' =>
           dm_emitted' = Append(dm_emitted, DmSyncDone)
    /\ DmSyncDones(dm_emitted') <= 1

\* C29: in start_dm_stream no dm-received is emitted for an event processed
\* while initial_sync is true; dm-sync-done is emitted at most once, at the
\* step that ends initial_sync, when the Eose markers counted have reached
\* the number of relays; and initial_sync never becomes true again
C29_InitialSyncSilent == [][DmSyncStep]_vars

\* a direct message was stored as new while initial_sync was true, and
\* nothing has been emitted
C29_Witness ==
    /\ \E i \in 1..Len(dm_log) : dm_log[i].result = "new" /\ dm_log[i].sync
    /\ dm_emitted = <<>>
    /\ dm_initial_sync

\* C30: once every relay of the fan-out has sent its EOSE, the stream leaves
\* initial_sync, and every direct message that arrives after that and is
\* stored as new has triggered a dm-received notification
C30_LiveDmNotified ==
    \A i \in 1..Len(dm_log) :
        dm_log[i].live /\ dm_log[i].result = "new" =>
            /\ ~dm_log[i].sync
            /\ \E j \in 1..Len(dm_emitted) : dm_emitted[j] = DmReceived(dm_log[i].id)

\* whatever the relays send, the consumer stays in initial_sync and emits
\* nothing: no task ever puts an Eose marker on the channel
DmNeverLeavesSync ==
    /\ dm_initial_sync
    /\ dm_eose_count = 0
    /\ dm_emitted = <<>>
    /\ \A i \in 1..Len(dm_chan) : dm_chan[i].type # "Eose"

-----------------------------------------------------------------------------
(* The conversation store *)

\* the lower-case ids of the events in the file, one per appended event
StoredIdSeq == [i \in 1..Len(store_appended) |-> ToLowercase(store_appended[i].id)]

\* C31: append_raw_event is idempotent per event id for the text event_to_json
\* produces: a call for an id that was appended before returns Ok(false) and
\* leaves the file as it was, so that no id is in the file twice
C31_AppendIdempotent ==
    /\ \A i \in 1..Len(store_log) :
           store_log[i].present => store_log[i].result # "Ok(true)"
    /\ \A i, j \in 1..Len(StoredIdSeq) : StoredIdSeq[i] = StoredIdSeq[j] => i = j

\* the file text that holds the given events, in order, each as event_to_json
\* wrote it
RECURSIVE JoinedEvents(_)
JoinedEvents(appended) ==
    IF appended = <<>> THEN <<>>
    ELSE EventToJson(Head(appended))
             \o (IF Tail(appended) = <<>> THEN <<>> ELSE <<",">>)
             \o JoinedEvents(Tail(appended))

\* the callers between taking the conversation's mutex and dropping it
InSection == {t \in StoreThreads : store_pc[t] \in {"read", "write"}}

\* C35: the mutex of a conversation is held over the whole read-check-write of
\* append_raw_event: at most one call is in that section, it is the holder of
\* the mutex, and the file holds every event whose call returned Ok(true), in
\* the order of the writes, so no update is lost under any interleaving
C35_NoLostUpdate ==
    /\ Cardinality(InSection) <= 1
    /\ \A t \in InSection : store_lock = t
    /\ store_file = IF store_appended = <<>> THEN FileAbsent
                    ELSE FileWith(<<"[">> \o JoinedEvents(store_appended) \o <<"]">>)

\* one caller is about to write while the other waits for the mutex, and the
\* file already exists
C35_Witness ==
    \E t, u \in StoreThreads :
        /\ store_pc[t] = "write" /\ store_lock = t
        /\ store_pc[u] = "lock"
        /\ store_file.exists

\* two concurrent calls with different ids have both returned Ok(true)
C35_WitnessBothStored ==
    /\ Len(store_appended) = 2
    /\ store_appended[1].id # store_appended[2].id
    /\ \A t \in StoreThreads : store_result[t] = "Ok(true)"

-----------------------------------------------------------------------------
(* Events as JSON text *)

\* C36: parse_event(event_to_json(e)) is e: every field is the same, the tags
\* are in the same order with duplicates kept, and no tag is dropped
C36_EventRoundTrip == json_pc = "parsed" => json_parsed = EventOk(json_event)

\* without an empty tag the event does come back as it was
C36_RoundTripWithoutEmptyTag ==
    json_pc = "parsed" /\ (\A i \in 1..Len(json_event.tags) : json_event.tags[i] # <<>>)
        => json_parsed = EventOk(json_event)

\* what is lost is exactly the empty tags
C36_EmptyTagsDropped ==
    json_pc = "parsed" =>
        /\ json_parsed.ok
        /\ json_parsed.event =
               [json_event EXCEPT !.tags = SelectSeq(json_event.tags, LAMBDA tag : tag # <<>>)]

-----------------------------------------------------------------------------
(* Hexadecimal text *)

\* the hexadecimal digits, in both cases
HexDigits == {"0", "1", "2", "3", "4", "5", "6", "7", "8", "9",
              "a", "b", "c", "d", "e", "f", "A", "B", "C", "D", "E", "F"}

IsHexText(h) == Len(h) % 2 = 0 /\ \A i \in 1..Len(h) : h[i] \in HexDigits

\* C34: hex_to_bytes succeeds exactly on the texts of even length made of
\* hexadecimal digits, one byte per two characters; bytes_to_hex of its result
\* is the text in lower case; and hex_to_bytes(bytes_to_hex(b)) is b for every
\* byte sequence b
C34_HexRoundTrip ==
    /\ hex_pc \in {"decoded", "back_to_text"} =>
           /\ hex_result.ok <=> IsHexText(hex_h)
           /\ hex_result.ok => Len(hex_result.bytes) * 2 = Len(hex_h)
    /\ hex_pc = "back_to_text" => hex_text = ToLowercase(hex_h)
    /\ hex_pc = "encoded" => Len(hex_text) = 2 * Len(hex_b)
    /\ hex_pc = "back_to_bytes" => hex_result = HexOk(hex_b)

\* a text with capital digits has come back in lower case
C34_Witness ==
    /\ hex_pc = "back_to_text"
    /\ hex_h = <<"F", "9", "a", "0">>
    /\ hex_result = HexOk(<<249, 160>>)
    /\ hex_text = <<"f", "9", "a", "0">>

\* bytes have come back from their text
C34_WitnessBytes ==
    /\ hex_pc = "back_to_bytes"
    /\ hex_b = <<171, 0, 255>>
    /\ hex_text = <<"a", "b", "0", "0", "f", "f">>

\* a text of odd length and a text with a character that is no digit are
\* both refused
C34_WitnessRefused ==
    /\ hex_pc = "decoded"
    /\ ~hex_result.ok
    /\ hex_h \in {<<"0", "a", "f">>, <<"0", "g">>}

-----------------------------------------------------------------------------
(* Order on the feed channel *)

\* the sequence numbers of the notes emitted for relay r's events, in order
RECURSIVE NotesFrom(_, _)
NotesFrom(r, notifications) ==
    IF notifications = <<>> THEN <<>>
    ELSE (IF Head(notifications).name = "note" /\ Head(notifications).from = r
          THEN <<Head(notifications).seq>> ELSE <<>>)
             \o NotesFrom(r, Tail(notifications))

\* what relay r's task has queued and the consumer has not taken yet
QueuedFrom(r) == SelectSeq(chan, LAMBDA msg : msg.from = r)

\* the wire positions of every Event of relay r that went through the
\* channel, taken or not, in channel order
EventsThrough(r) ==
    NotesFrom(r, emitted)
        \o [i \in 1..Len(SelectSeq(QueuedFrom(r), LAMBDA msg : msg.type = "Event")) |->
                SelectSeq(QueuedFrom(r), LAMBDA msg : msg.type = "Event")[i].seq]

\* C32: the Events one relay task puts on the channel are its EVENT frames in
\* wire order, each once; the task sends at most one Eose marker and nothing
\* after it
C32_PerProducerOrder ==
    \A r \in Relays :
        /\ EventsThrough(r) = [i \in 1..Len(EventsThrough(r)) |-> i]
        /\ Len(EventsThrough(r)) <= wire_events[r]
        /\ ~ReceiverDropped => Len(EventsThrough(r)) = wire_events[r]
        /\ \A i \in 1..Len(QueuedFrom(r)) :
               QueuedFrom(r)[i].type = "Eose" => i = Len(QueuedFrom(r))
        /\ eose_seen[r] <= 1
        /\ eose_seen[r] = 1 => QueuedFrom(r) = <<>>
        /\ (eose_seen[r] = 1 \/ \E i \in 1..Len(chan) : chan[i] = EoseMsg(r))
               => prodPc[r] = "done"

\* a relay's two events are on the channel in wire order with its Eose marker
\* behind them
C32_Witness ==
    \E r \in Relays : chan = <<EventMsg(r, 1), EventMsg(r, 2), EoseMsg(r)>>

\* events of two relays are interleaved on the channel
C32_WitnessTwoRelays ==
    /\ Len(chan) >= 3
    /\ chan[1] = EventMsg(2, 1)
    /\ chan[2] = EventMsg(1, 1)
    /\ chan[3] = EoseMsg(2)

-----------------------------------------------------------------------------
(* A relay message that does not parse *)

\* a text frame whose text parse_relay_message refuses
IsBadText(frame) == frame.kind = "Text" /\ ParseRelayMessage(frame.text).kind = "Err"

\* the one-shot fetch reads a bad text: back to the top of the loop with the
\* events, the connection and the result as they were
FetchToleratesBadText ==
    (/\ fetchPc = "receiving" /\ inbox # <<>> /\ connected /\ socket
     /\ IsBadText(Head(inbox))
     /\ fetchPc' # fetchPc)
        => /\ fetchPc' = "loop"
           /\ connected' /\ socket'
           /\ UNCHANGED <<events, fetchResult, fetchExit, fetch_url, elapsed>>

\* the wait of a publish reads a bad text: back to the top of the loop with
\* no result pushed and the connection open
PubToleratesBadText ==
    (/\ pubPc = "receiving" /\ inbox # <<>> /\ connected /\ socket
     /\ IsBadText(Head(inbox))
     /\ pubPc' # pubPc)
        => /\ pubPc' = "waiting"
           /\ connected' /\ socket'
           /\ UNCHANGED <<results, relay_returns, pub_idx, commandResult, elapsed>>

\* a task of the feed stream reads a text it ignores (a bad text is one):
\* it stays in its loop and nothing goes on the channel
FeedToleratesBadText ==
    wire_ignored' # wire_ignored
        => UNCHANGED <<prodPc, prodExit, chan, wire_events, feedPc, emitted, eose_count>>

\* a task of the direct-message stream reads a bad text: it stays in its loop
\* and nothing goes on the channel
DmToleratesBadText ==
    \A r \in Relays :
        dm_wire'[r] = Append(dm_wire[r], DmBadText)
            => UNCHANGED <<dm_prod, dm_exit, dm_chan, dm_sent, dm_pc, dm_emitted, dm_store>>

ToleratesBadText ==
    /\ FetchToleratesBadText
    /\ PubToleratesBadText
    /\ FeedToleratesBadText
    /\ DmToleratesBadText

\* C33: a text message that fails relay-message parsing ends none of the four
\* loops: the step that reads it leaves the loop where it was, with the
\* connection open and the loop's state as before, so what follows is
\* processed as if the bad message had not been received
C33_BadMessageTolerated == [][ToleratesBadText]_vars

\* a task of the direct-message stream has read a bad text and then a direct
\* message, which it has sent on the channel, and is still reading
C33_Witness ==
    \E r \in Relays :
        /\ dm_wire[r] = <<DmBadText, DmEvent(1, KIND_DM, TRUE)>>
        /\ dm_sent[r] = <<1>>
        /\ dm_prod[r] = "streaming"

\* the fetch loop is about to read a text that is not JSON, with an event
\* already collected
C33_WitnessFetch ==
    /\ fetchPc = "receiving" /\ connected /\ socket
    /\ inbox = <<Frame("Text", InvalidJson)>>
    /\ events # <<>>

\* the wait of a publish is about to read an EVENT message whose event lacks
\* required fields
C33_WitnessPublish ==
    /\ pubPc = "receiving" /\ connected /\ socket
    /\ inbox # <<>> /\ IsBadText(Head(inbox))
    /\ Head(inbox).text # InvalidJson /\ Head(inbox).text # NotAnArray

-----------------------------------------------------------------------------
(* The stop request of the handler *)

\* C37: a stop request is honoured at frame granularity: once should_stop()
\* has become true during the dispatch of a frame, run dispatches no further
\* frame, so the handler never has more callbacks than the number after which
\* it asked to stop
C37_StopAtFrame == Len(ws_dispatched) <= ws_stop_after

\* what does hold: should_stop() is asked once per call of the frame parser,
\* so run returns Ok after the read in which the handler asked to stop
StopAtRead ==
    ws_pc = "connected" /\ conn_read_buf = <<>> => Len(ws_dispatched) < ws_stop_after

-----------------------------------------------------------------------------
(* The payload of a Close frame *)

\* the callback the adapter makes for an inbound Close frame with the payload
\* the latest send operation was given
CloseDecoded == AdapterFrame([opcode |-> OP_CLOSE, payload |-> send_call.payload])

\* C38: the payload send_close(c, r) builds, when it is within the cap and
\* sent, is decoded by the adapter as a close with the same code and reason;
\* a close sent without a code is never decoded as having one
C38_CloseRoundTrip ==
    \A code \in CloseCodes, len \in ReasonLengths :
        (/\ send_call.op = "send_close"
         /\ send_result = "Ok"
         /\ send_call.payload = ClosePayload(code, ReasonBytes(len)))
            => CloseDecoded = <<HandlerCall("close", IF code.some THEN code.v ELSE -1,
                                            ReasonBytes(len))>>

\* with a status code the close does come back as it was sent
CloseWithCodeRoundTrip ==
    \A len \in ReasonLengths :
        (/\ send_call.op = "send_close"
         /\ send_result = "Ok"
         /\ send_call.payload = ClosePayload(Some(CloseNormal), ReasonBytes(len)))
            => CloseDecoded = <<HandlerCall("close", CloseNormal, ReasonBytes(len))>>

-----------------------------------------------------------------------------
(* RelayConnection *)

\* the operations that go through RelayConnection::send
RcSends == {"send", "subscribe", "close_subscription", "publish_event"}

\* one operation on a RelayConnection keeps the discipline of `connected`
RcStep ==
    rc_ops' = rc_ops + 1 =>
        \* called while not connected, send and receive return the one error
        \* and call nothing on the socket
        /\ (~rc_connected /\ rc_last'.op \in RcSends \cup {"receive"}) =>
               /\ ~rc_last'.ok
               /\ rc_last'.err = MsgNotConnected
               /\ ~rc_last'.touched
               /\ UNCHANGED <<rc_connected, rc_socket>>
        \* a Close message or a read error clears `connected`
        /\ (rc_last'.op = "receive" /\ rc_last'.read \in {"Close", "ReadError"}) =>
               ~rc_connected'
        \* only a connect that succeeds sets it
        /\ (~rc_connected /\ rc_connected') => rc_last'.op = "connect" /\ rc_last'.ok

\* C39: in every state reachable by any sequence of connect, send, receive,
\* subscribe, close_subscription, publish_event and disconnect, connected
\* implies that a socket is present; while not connected every send and
\* receive returns Err("Not connected to relay") without touching the socket;
\* and once receive has seen a Close message or a read error, connected stays
\* false until a later connect succeeds
C39_ConnectedDiscipline ==
    /\ [](rc_connected => rc_socket)
    /\ [][RcStep]_vars

\* receive has just read a Close message: the socket is still there and the
\* connection counts as closed
C39_Witness ==
    /\ rc_last.op = "receive" /\ rc_last.read = "Close"
    /\ ~rc_connected /\ rc_socket

\* a send on a connection the relay has closed was refused without touching
\* the socket, which is still there
C39_WitnessRefused ==
    /\ rc_last.op \in RcSends
    /\ rc_last.err = MsgNotConnected /\ ~rc_last.touched
    /\ rc_socket

\* the connection was closed by the relay and a later connect has succeeded
C39_WitnessReconnected ==
    /\ rc_ops = 3
    /\ rc_last.op = "connect" /\ rc_last.ok
    /\ rc_connected /\ rc_socket

-----------------------------------------------------------------------------
(* Notes and the caught-up event of a feed *)

\* the consumer takes one message off the channel
FeedTakes == feedPc = "recv" /\ chan # <<>> /\ chan' = Tail(chan)

\* one step of the feed keeps the discipline of its notifications
FeedNotesStep ==
    /\ emitted' # emitted => FeedTakes
    /\ (FeedTakes /\ Head(chan).type = "Event") =>
           /\ emitted' = Append(emitted, [name |-> "note", from |-> Head(chan).from,
                                          seq |-> Head(chan).seq])
           /\ feedPc' = "recv"
    /\ (FeedTakes /\ Head(chan).type # "Event") =>
           \/ emitted' = emitted
           \/ /\ emitted' = Append(emitted, [name |-> "eose", from |-> 0, seq |-> 0])
              /\ feedPc' = "done"

\* the caught-up event, when it was emitted, is the last notification
CaughtUpIsLast ==
    \A i \in 1..Len(emitted) : emitted[i].name = "eose" => i = Len(emitted) /\ feedPc = "done"

\* C40: once the caught-up event of a feed has been emitted no further note is
\* emitted, whatever the producers still send; before it, every Event message
\* taken off the channel is emitted as one note, in channel order, whether or
\* not another relay delivered the same position before
C40_NoNotesAfterCaughtUp ==
    /\ []CaughtUpIsLast
    /\ [][FeedNotesStep]_vars

\* both relays' first events were emitted as notes, one per message, and then
\* the feed caught up and left its loop
C40_Witness ==
    /\ Len(emitted) = 3
    /\ emitted[1].name = "note" /\ emitted[2].name = "note"
    /\ emitted[1].from # emitted[2].from
    /\ emitted[1].seq = emitted[2].seq
    /\ emitted[3].name = "eose"
    /\ feedPc = "done"
====
